---- MODULE Spec2Model ----
(***************************************************************************)
(* The agent control loop of the browser agent (src/src/bin/agent):        *)
(* command intake (face.rs), the task loop run_task (main.rs), the         *)
(* conversation store and decision client (brain.rs), the action executor  *)
(* execute_step_on_tab (main.rs) and the session's tab handle (hands.rs).  *)
(*                                                                         *)
(* The decision service, the browser and the file system are the          *)
(* environment: every call into them is a nondeterministic choice over    *)
(* the results the code distinguishes.                                     *)
(***************************************************************************)
EXTENDS Integers, Sequences, FiniteSets, TLC

(***************************************************************************)
(* Bounds of the model.                                                    *)
(***************************************************************************)
\* POST /command requests made in one run.
MaxCommands == 2
\* types.rs:41 sets the step budget to 25; run_task only compares step_count
\* with it, so the loop is checked with a scaled budget.
MAX_STEPS_PER_TASK == 2
\* Well-formed replies other than the plain Done that the decision service
\* gives in one run; once they are used up it answers the plain Done.
MaxReplies == 2
\* Stretches of one run in which the environment gives results other than
\* plain success: a failed decide call or a malformed reply, a failed browser
\* call, an element without text, a failed page read, a failed new_tab, a
\* failed write of memory.json.
MaxFaults == 1
\* Turns the conversation grows to where the store is checked on its own.
MaxTurns == 4
\* face.rs:65 gives the event channel room for 64 events; receivers only
\* compare their backlog with it, so it is checked with a scaled capacity.
EVENT_CHANNEL_CAPACITY == 2
\* sse_handler streams opened in one run.
MaxSubscribers == 2
\* POST /command requests made in one run where the intake is checked with
\* a quiet environment.
MaxRequests == 3
\* dom.rs:30 stops the walk below depth 15; the walk only compares the
\* depth with it, so it is checked with a scaled limit.
SNAPSHOT_MAX_DEPTH == 1
\* types.rs:42 sets the snapshot budget to 4000; capture_dom_snapshot only
\* compares a length with it and cuts at it, so it is checked with a scaled
\* budget and texts of up to MaxRawChars characters.
DOM_SNAPSHOT_MAX_CHARS == 3
MaxRawChars == 5
\* main.rs:199 keeps the first 2000 characters of an extracted text; the
\* code only counts characters up to it, so it is checked with a scaled cap
\* and texts of up to MaxTextChars characters.
EXTRACT_MAX_CHARS == 2
MaxTextChars == 4
\* Snapshots taken of one page, and the elements under its body, where
\* snapshots are checked one after another.
MaxSnapshots == 2
MaxPageElements == 3

(***************************************************************************)
(* Program constants.                                                      *)
(***************************************************************************)
\* face.rs:64  mpsc::channel::<String>(1)
CMD_CHANNEL_CAPACITY == 1

VARIABLES
    handler,        \* command_handler instance per request: "new", "sending", "acked"
    sent_during,    \* history: the session that was running when a pending send was made
    cmd_chan,       \* buffer of the mpsc command channel (cmd_tx / cmd_rx)
    pc,             \* where the orchestration task (main / run_task) is suspended
    command,        \* command of run_task: <<c>> while it runs, <<>> otherwise
    step_count,     \* step_count of run_task
    conversation,   \* Brain.conversation
    memory_file,    \* content of memory.json
    tab,            \* BrowserSession.tab (identity of the current tab)
    tabs_opened,    \* tabs created by Browser::new_tab so far
    jobs,           \* spawn_blocking closures spawned and not yet run to completion
    join,           \* value delivered by the JoinHandle run_task awaits
    trace,          \* history: events sent on the broadcast channel and the loop's calls
    accepted,       \* history: commands whose send completed, in completion order
    started,        \* history: commands dequeued by main, in order
    replies_used,   \* environment budget used (MaxReplies)
    faults,         \* environment budget used (MaxFaults)
    subs,           \* sse_handler streams: the receivers of the event channel
    page,           \* the element tree of the page a snapshot is taken of
    walked,         \* what SNAPSHOT_JS left behind: ids given and lines emitted
    raw,            \* the text the snapshot script returned to capture_dom_snapshot
    captured,       \* what capture_dom_snapshot returned for it
    target,         \* an Extract step and the element its selector finds, if any
    extraction,     \* what execute_step_on_tab returned and pushed for it
    reply,          \* a reply text of the decision service
    decoded         \* what decide_next_step returned for it

vars == <<handler, sent_during, cmd_chan, pc, command, step_count, conversation, memory_file,
          tab, tabs_opened, jobs, join, trace, accepted, started, replies_used, faults,
          subs, page, walked, raw, captured, target, extraction, reply, decoded>>

\* The state of the functions that are checked on their own.
fnVars == <<target, extraction, reply, decoded>>

\* The state of the event subscribers and of the snapshot functions.
auxVars == <<subs, page, walked, raw, captured, fnVars>>

Handlers == DOMAIN handler
NoResult == [none |-> TRUE]

(***************************************************************************)
(* types.rs: Step, the closed set of actions, with the field values the    *)
(* decision service uses in this model.                                    *)
(***************************************************************************)
Navigate == [action |-> "Navigate", url |-> "https://x"]
WaitFor == [action |-> "WaitFor", selector |-> "[data-eid=\"[e0]\"]", timeout_ms |-> 5000]
TypeInto == [action |-> "TypeInto", selector |-> "[data-eid=\"[e0]\"]", text |-> "X"]
Click == [action |-> "Click", selector |-> "[data-eid=\"[e0]\"]"]
PressKey == [action |-> "PressKey", key |-> "Enter"]
Extract == [action |-> "Extract", selector |-> "body", label |-> "result"]
Screenshot == [action |-> "Screenshot"]
NewTab == [action |-> "NewTab"]
DoneStep(s) == [action |-> "Done", summary |-> s]

StepTags == {"Navigate", "WaitFor", "TypeInto", "Click", "PressKey", "Extract",
             "Screenshot", "Done", "NewTab"}

\* The fields serde requires for each variant of Step.
RequiredFields(tag) ==
    CASE tag = "Navigate" -> {"url"}
      [] tag = "WaitFor" -> {"selector", "timeout_ms"}
      [] tag = "TypeInto" -> {"selector", "text"}
      [] tag = "Click" -> {"selector"}
      [] tag = "PressKey" -> {"key"}
      [] tag = "Extract" -> {"selector", "label"}
      [] tag = "Done" -> {"summary"}
      [] OTHER -> {}

NonTerminalSteps == {Navigate, WaitFor, TypeInto, Click, PressKey, Extract, Screenshot, NewTab}

(***************************************************************************)
(* brain.rs: the conversation store.                                       *)
(***************************************************************************)
\* brain.rs:43-46  the turn Brain::new starts the conversation with.
SystemTurn == [role |-> "system", content |-> [prompt |-> "SYSTEM_PROMPT"]]

\* brain.rs:86-92  the turn start_task pushes.
TaskTurn(user_prompt) == [role |-> "user", content |-> [task |-> user_prompt]]

\* brain.rs:98-114  the turn observe pushes: url, title and DOM always, the
\* error when there is one, then every extraction.
ObservationTurn(page_state) ==
    [role |-> "user",
     content |-> [url |-> page_state.url, title |-> page_state.title,
                  dom |-> page_state.dom_snapshot, error |-> page_state.error,
                  extracted |-> page_state.extracted]]

\* brain.rs:167-170  the turn decide_next_step pushes for a reply.
AssistantTurn(content) == [role |-> "assistant", content |-> content]

\* types.rs:35-39, brain.rs:77  serde_json's encoding of the conversation: an
\* array with one object per ChatMessage, its two String fields as JSON strings.
JsonString(v) == [json |-> "string", v |-> v]
JsonObject(fields) == [json |-> "object", fields |-> fields]
JsonArray(items) == [json |-> "array", items |-> items]
EncodeMessage(m) == JsonObject([role |-> JsonString(m.role), content |-> JsonString(m.content)])
ToJson(conv) == JsonArray([i \in 1..Len(conv) |-> EncodeMessage(conv[i])])

\* types.rs:35-39, brain.rs:64  serde_json's decoding of one ChatMessage: an
\* object with a string under role and a string under content; fields it
\* does not know are skipped.
IsMessage(j) ==
    /\ j.json = "object"
    /\ {"role", "content"} \subseteq DOMAIN j.fields
    /\ j.fields.role.json = "string"
    /\ j.fields.content.json = "string"

DecodeMessage(j) == [role |-> j.fields.role.v, content |-> j.fields.content.v]

\* brain.rs:64  from_reader::<_, Vec<ChatMessage>>: the messages, or an error.
FromJson(text) ==
    IF text.json = "array" /\ \A i \in DOMAIN text.items : IsMessage(text.items[i])
    THEN [ok |-> TRUE, v |-> [i \in 1..Len(text.items) |-> DecodeMessage(text.items[i])]]
    ELSE [ok |-> FALSE]

\* memory.json: absent, not openable, holding the bytes of a completed write,
\* or cut short by a write that failed.
NoFile == [state |-> "missing"]
LockedFile == [state |-> "locked"]
TextFile(text) == [state |-> "saved", text |-> text]
SavedFile(conv) == TextFile(ToJson(conv))
PartialFile == [state |-> "partial"]

\* Mutant of LoadMemory: the role of the first record is not looked at.
LoadMemoryAnyFirst(file, conv) ==
    IF file.state # "saved" THEN conv
    ELSE LET saved_msgs == FromJson(file.text) IN
         IF saved_msgs.ok /\ saved_msgs.v # <<>> THEN saved_msgs.v ELSE conv

\* brain.rs:61-72  load_memory: the conversation after the call.  The file
\* must open, parse as a list of messages, be non-empty and start with a
\* system record; otherwise the conversation is left as it was.
LoadMemory(file, conv) ==
    IF file.state # "saved" THEN conv
    ELSE LET saved_msgs == FromJson(file.text) IN
         IF saved_msgs.ok /\ saved_msgs.v # <<>> /\ saved_msgs.v[1].role = "system"
         THEN saved_msgs.v
         ELSE conv

\* brain.rs:39-59  Brain::new: the one-turn conversation, then load_memory.
BrainNewConversation(file) == LoadMemory(file, <<SystemTurn>>)

\* brain.rs:74-79  save_memory: File::create may fail (file untouched), the
\* write may fail after the file was truncated; both are ignored.
SaveMemory(file, conv, outcome) ==
    CASE outcome = "written" -> SavedFile(conv)
      [] outcome = "create_failed" -> file
      [] outcome = "write_failed" -> PartialFile

\* The results of one write of memory.json the environment can still produce.
SaveOutcomes(f) ==
    IF f < MaxFaults THEN {"written", "create_failed", "write_failed"} ELSE {"written"}

SaveCost(outcome) == IF outcome = "written" THEN 0 ELSE 1

\* The budget counts the stretches of the run in which the environment
\* misbehaves, however many of its answers in that stretch are failures.
Faulty(cost) == IF cost > 0 THEN 1 ELSE 0

(***************************************************************************)
(* brain.rs: decide_next_step.  A reply text is a sequence of tokens:      *)
(* markdown fences, white space, prose and JSON objects.                   *)
(***************************************************************************)
FenceJson == [t |-> "fence_json"]
Fence == [t |-> "fence"]
Ws == [t |-> "ws"]
JsonWord == [t |-> "json"]
Prose == [t |-> "prose"]
Object(v) == [t |-> "object", v |-> v]

RECURSIVE TrimStart(_)
\* str::trim, leading part.
TrimStart(text) ==
    IF text # <<>> /\ Head(text) = Ws THEN TrimStart(Tail(text)) ELSE text

RECURSIVE TrimEnd(_)
\* str::trim, trailing part.
TrimEnd(text) ==
    IF text # <<>> /\ text[Len(text)] = Ws
    THEN TrimEnd(SubSeq(text, 1, Len(text) - 1))
    ELSE text

\* The one element of a singleton set.
Only(S) == CHOOSE v \in S : TRUE

Trim(text) == Only({TrimEnd(t) : t \in {TrimStart(text)}})

RECURSIVE TrimStartFenceJson(_)
\* brain.rs:176  trim_start_matches of the json fence: every leading repetition.
TrimStartFenceJson(text) ==
    IF text # <<>> /\ Head(text) = FenceJson THEN TrimStartFenceJson(Tail(text)) ELSE text

RECURSIVE TrimStartFence(_)
\* brain.rs:177  trim_start_matches of the bare fence: every leading repetition; of a
\* leading json fence it removes the three backticks and leaves the word json.
TrimStartFence(text) ==
    IF text = <<>> THEN text
    ELSE IF Head(text) = Fence THEN TrimStartFence(Tail(text))
    ELSE IF Head(text) = FenceJson THEN <<JsonWord>> \o Tail(text)
    ELSE text

RECURSIVE TrimEndFence(_)
\* brain.rs:178  trim_end_matches of the bare fence.
TrimEndFence(text) ==
    IF text # <<>> /\ text[Len(text)] = Fence
    THEN TrimEndFence(SubSeq(text, 1, Len(text) - 1))
    ELSE text

\* brain.rs:174-179  trim, trim_start_matches of the json fence, then of the
\* bare fence, trim_end_matches of the bare fence, trim: each call works on
\* the value of the call before it.
StripFences(content) ==
    Only({Trim(d) : d \in
         {TrimEndFence(c) : c \in
         {TrimStartFence(b) : b \in
         {TrimStartFenceJson(a) : a \in
         {Trim(content)}}}}})

Ok(step) == [ok |-> TRUE, step |-> step]
Err(e) == [ok |-> FALSE, error |-> e]

\* Mutant of DecodeStep: a field the reply lacks is filled with an empty
\* value, an action outside the set is taken for Screenshot.
DecodeStepDefaults(v) ==
    IF "action" \in DOMAIN v
    THEN LET tag == IF v.action \in StepTags THEN v.action ELSE "Screenshot" IN
         Ok([f \in {"action"} \cup RequiredFields(tag) |->
                IF f = "action" THEN tag ELSE IF f \in DOMAIN v THEN v[f] ELSE ""])
    ELSE Err("Failed to parse LLM response")

\* types.rs:4-16  serde's decoding of an object into the internally tagged
\* enum Step: the tag must name a variant and the variant's fields must be
\* present; other fields are dropped.
DecodeStep(v) ==
    IF /\ "action" \in DOMAIN v
       /\ v.action \in StepTags
       /\ RequiredFields(v.action) \subseteq DOMAIN v
    THEN Ok([f \in {"action"} \cup RequiredFields(v.action) |-> v[f]])
    ELSE Err("Failed to parse LLM response")

\* brain.rs:183-191  serde_json::from_str on the cleaned text: one JSON value,
\* nothing but white space around it.
ParseStep(cleaned) ==
    IF Len(cleaned) = 1 /\ cleaned[1].t = "object"
    THEN DecodeStep(cleaned[1].v)
    ELSE Err("Failed to parse LLM response")

\* What the HTTP exchange of decide_next_step can come back with.
TransportError == [kind |-> "transport_error"]
HttpError == [kind |-> "http_error"]
NoContent == [kind |-> "no_content"]
Content(text) == [kind |-> "content", content |-> text]

\* brain.rs:134-162  the errors returned before any reply text is seen.
ResponseError(resp) ==
    CASE resp.kind = "transport_error" -> "error sending request"
      [] resp.kind = "http_error" -> "OpenAI API error"
      [] resp.kind = "no_content" -> "No content in LLM response"

\* Mutant of DecideNextStep: a call that got no reply text leaves an empty
\* assistant turn behind.
DecideNextStepRecordsFailure(conv, resp) ==
    IF resp.kind # "content"
    THEN [conversation |-> Append(conv, AssistantTurn(<<>>)), saves |-> TRUE,
          result |-> Err(ResponseError(resp))]
    ELSE [conversation |-> Append(conv, AssistantTurn(resp.content)),
          saves |-> TRUE,
          result |-> Only({ParseStep(cleaned) : cleaned \in {StripFences(resp.content)}})]

\* brain.rs:119-192  decide_next_step on a response: the conversation after
\* the call, whether memory.json is rewritten, and the Result returned.
DecideNextStep(conv, resp) ==
    IF resp.kind # "content"
    THEN [conversation |-> conv, saves |-> FALSE, result |-> Err(ResponseError(resp))]
    ELSE [conversation |-> Append(conv, AssistantTurn(resp.content)),
          saves |-> TRUE,
          result |-> Only({ParseStep(cleaned) : cleaned \in {StripFences(resp.content)}})]

(***************************************************************************)
(* The decision service: the responses it gives in this model.             *)
(***************************************************************************)
\* The reply the service gives when nothing else is chosen for it.
PlainDone == <<Object(DoneStep("found X"))>>

\* The other well-formed replies: another Done, wrapped in markdown fences,
\* and the eight steps that are not Done.
OtherReplies ==
    {<<FenceJson, Ws, Object(DoneStep("gave up")), Ws, Fence>>}
    \cup {<<Object(st)>> : st \in NonTerminalSteps}

\* Not JSON, an action outside the closed set, a variant without its field.
MalformedReplies ==
    {<<Prose>>,
     <<Object([action |-> "Hover", selector |-> "body"])>>,
     <<Object([action |-> "Click"])>>}

Responses(r, f) ==
    {Content(PlainDone)}
    \cup (IF r < MaxReplies THEN {Content(t) : t \in OtherReplies} ELSE {})
    \cup (IF f < MaxFaults
          THEN {TransportError, HttpError, NoContent} \cup {Content(t) : t \in MalformedReplies}
          ELSE {})

ReplyCost(resp) == IF resp.kind = "content" /\ resp.content \in OtherReplies THEN 1 ELSE 0

FaultCost(resp) ==
    IF resp.kind # "content" \/ resp.content \in MalformedReplies THEN 1 ELSE 0

(***************************************************************************)
(* face.rs: AgentEvent, the events sent on the broadcast channel.          *)
(***************************************************************************)
Thinking == [kind |-> "Thinking"]
Ready == [kind |-> "Ready"]
StepEvent(number, description) ==
    [kind |-> "Step", number |-> number, description |-> description]
StepError(message) == [kind |-> "StepError", message |-> message]
TaskComplete(summary) == [kind |-> "TaskComplete", summary |-> summary]
TaskError(message) == [kind |-> "TaskError", message |-> message]

EventKinds == {"Thinking", "Ready", "Step", "StepError", "TaskComplete", "TaskError"}
IsEvent(e) == e.kind \in EventKinds

\* The events sent so far, in the order of the sends.
Published == SelectSeq(trace, IsEvent)

\* Mutant of EventSendReturns: the send waits until every open receiver has
\* room for one more event.
EventSendWaitsForRoom(receivers) ==
    \A s \in DOMAIN receivers :
        receivers[s].state = "open" =>
            Len(Published) - receivers[s].next + 1 < EVENT_CHANNEL_CAPACITY

\* face.rs:65, main.rs:59-66, 87, 101, 136, 145  events.send on the broadcast
\* channel is not awaited and its result is dropped: it returns whatever
\* the receivers have read, and when there is none.
EventSendReturns(receivers) == TRUE

\* main.rs:100  format!("{:?}", step)
DebugFmt(step) == [debug |-> step]

\* main.rs:60  format!("Reached maximum step limit ({})", MAX_STEPS_PER_TASK)
LimitMessage == "Reached maximum step limit (" \o ToString(MAX_STEPS_PER_TASK) \o ")"

(***************************************************************************)
(* main.rs: execute_step_on_tab and the page reads that follow it.         *)
(***************************************************************************)
Min(a, b) == IF a < b THEN a ELSE b

\* What innerText of the selected element evaluates to; empty when no
\* element matches.
InnerText == <<"4", "2">>
NoInnerText == <<>>

\* The calls of execute_step_on_tab that can fail, per action (each "?").
FailingCalls(step) ==
    CASE step.action = "Navigate" -> {"navigate_to", "wait_for_element"}
      [] step.action = "WaitFor" -> {"wait_for_element_with_custom_timeout"}
      [] step.action = "TypeInto" -> {"find_element", "click", "evaluate", "type_str"}
      [] step.action = "Click" -> {"find_element", "click"}
      [] step.action = "PressKey" -> {"press_key"}
      [] step.action = "Extract" -> {"evaluate"}
      [] OTHER -> {}

\* What the browser can answer to the calls of one action: all succeed
\* (with the text read, for Extract), or one of them fails.
BrowserOutcomes(step, f) ==
    {[failed |-> "", text |-> IF step.action = "Extract" THEN InnerText ELSE NoInnerText]}
    \cup (IF f < MaxFaults
          THEN {[failed |-> c, text |-> NoInnerText] : c \in FailingCalls(step)}
               \cup (IF step.action = "Extract"
                     THEN {[failed |-> "", text |-> NoInnerText]}
                     ELSE {})
          ELSE {})

OutcomeCost(step, outcome) ==
    IF outcome.failed = "" /\ (step.action # "Extract" \/ outcome.text = InnerText)
    THEN 0 ELSE 1

\* Mutant of Take: the text is kept whole.
TakeAll(text, n) == text

\* main.rs:199  chars().take(n): the first n characters, or all of them.
Take(text, n) == SubSeq(text, 1, Min(n, Len(text)))

\* Mutant of ExecuteStepOnTab: Extract reads the text and pushes nothing.
ExecuteStepOnTabNoPush(step, outcome) ==
    IF outcome.failed # ""
    THEN [result |-> Err(outcome.failed \o " failed"), extracted |-> <<>>]
    ELSE [result |-> [ok |-> TRUE], extracted |-> <<>>]

\* Mutant of ExecuteStepOnTab: Screenshot is refused as not implemented.
ExecuteStepOnTabRefusesScreenshot(step, outcome) ==
    IF outcome.failed # ""
    THEN [result |-> Err(outcome.failed \o " failed"), extracted |-> <<>>]
    ELSE IF step.action = "Screenshot"
    THEN [result |-> Err("Screenshot not implemented"), extracted |-> <<>>]
    ELSE IF step.action = "Extract"
    THEN [result |-> [ok |-> TRUE],
          extracted |-> <<[label |-> step.label,
                           content |-> Take(outcome.text, EXTRACT_MAX_CHARS)]>>]
    ELSE [result |-> [ok |-> TRUE], extracted |-> <<>>]

\* main.rs:149-206  the Result returned and the content of extracted.
ExecuteStepOnTab(step, outcome) ==
    IF outcome.failed # ""
    THEN [result |-> Err(outcome.failed \o " failed"), extracted |-> <<>>]
    ELSE IF step.action = "Extract"
    THEN [result |-> [ok |-> TRUE],
          extracted |-> <<[label |-> step.label,
                           content |-> Take(outcome.text, EXTRACT_MAX_CHARS)]>>]
    ELSE [result |-> [ok |-> TRUE], extracted |-> <<>>]

\* dom.rs:96-111, main.rs:119-122  url, title and DOM snapshot as read from
\* the tab, each replaced by its fallback when the read fails.
PageReads(f) ==
    {[url |-> IF "url" \in bad THEN "unknown" ELSE "https://x/page",
      title |-> IF "title" \in bad THEN "untitled" ELSE "Page",
      dom_snapshot |-> IF "dom" \in bad THEN "" ELSE "[e0] link",
      panics |-> FALSE,
      cost |-> Cardinality(bad)] :
        bad \in (IF f < MaxFaults THEN SUBSET {"url", "title", "dom"} ELSE {{}})}
    \cup (IF f < MaxFaults
          THEN {[url |-> "https://x/page", title |-> "Page", dom_snapshot |-> "",
                 panics |-> TRUE, cost |-> 1]}
          ELSE {})

\* dom.rs:84-87, main.rs:110-133  a snapshot text over the budget whose byte
\* at the budget lies inside a character makes the slice panic: the closure
\* does not return and the JoinHandle delivers the JoinError.
JoinError == [panicked |-> TRUE]

\* Mutant of BlockingStep: extracted outlives the closure, and each page
\* state has what the steps of the session have pushed so far.
BlockingStepAccumulates(step, outcome, reads) ==
    LET ex == ExecuteStepOnTab(step, outcome)
        recv == CHOOSE r \in DOMAIN trace :
                    trace[r].kind = "recv" /\ \A q \in (r + 1)..Len(trace) : trace[q].kind # "recv"
        IsEarlier(e) == e.kind = "exec" /\ "extracted" \in DOMAIN e.page_state
                        /\ e.page_state.extracted # <<>>
        earlier == SelectSeq(SubSeq(trace, recv, Len(trace)), IsEarlier)
    IN [url |-> reads.url, title |-> reads.title, dom_snapshot |-> reads.dom_snapshot,
        extracted |-> (IF earlier = <<>> THEN <<>> ELSE earlier[Len(earlier)].page_state.extracted)
                      \o ex.extracted,
        error |-> IF ex.result.ok THEN <<>> ELSE <<ex.result.error>>]

\* Mutant of BlockingStep: the error of the step is not put in the page state.
BlockingStepSwallows(step, outcome, reads) ==
    [url |-> reads.url, title |-> reads.title, dom_snapshot |-> reads.dom_snapshot,
     extracted |-> ExecuteStepOnTab(step, outcome).extracted,
     error |-> <<>>]

\* main.rs:110-131  the closure run by spawn_blocking.
BlockingStep(step, outcome, reads) ==
    LET ex == ExecuteStepOnTab(step, outcome) IN
    [url |-> reads.url, title |-> reads.title, dom_snapshot |-> reads.dom_snapshot,
     extracted |-> ex.extracted,
     error |-> IF ex.result.ok THEN <<>> ELSE <<ex.result.error>>]

(***************************************************************************)
(* hands.rs: BrowserSession::new_tab.                                      *)
(***************************************************************************)
NewTabOutcomes(f) == IF f < MaxFaults THEN {TRUE, FALSE} ELSE {TRUE}
NewTabCost(opened) == IF opened THEN 0 ELSE 1

\* Mutant of NewTabHandle: the handle is replaced also when no tab was made.
NewTabHandleAlways(current, opened, fresh) == fresh

\* hands.rs:99-103  the current tab after new_tab: the new one, or on
\* failure the one before.
NewTabHandle(current, opened, fresh) == IF opened THEN fresh ELSE current

(***************************************************************************)
(* Initial state: the server is up, the browser is launched, Brain::new    *)
(* found no memory.json, main awaits the first command.                    *)
(***************************************************************************)
\* No snapshot has been taken.
NoSnapshot == page = <<>> /\ walked = <<>> /\ raw = <<>> /\ captured = <<>>

\* No function is being checked on its own.
NoCall == target = <<>> /\ extraction = <<>> /\ reply = <<>> /\ decoded = <<>>

Init ==
    /\ handler = [h \in 1..MaxCommands |-> "new"]
    /\ sent_during = [h \in 1..MaxCommands |-> 0]
    /\ cmd_chan = <<>>
    /\ pc = "idle"
    /\ command = <<>>
    /\ step_count = 0
    /\ conversation = <<SystemTurn>>
    /\ memory_file = NoFile
    /\ tab = 0
    /\ tabs_opened = 0
    /\ jobs = <<>>
    /\ join = NoResult
    /\ trace = <<>>
    /\ accepted = <<>>
    /\ started = <<>>
    /\ replies_used = 0
    /\ faults = 0
    /\ subs = <<>>
    /\ NoSnapshot
    /\ NoCall

(***************************************************************************)
(* face.rs: command_handler.                                               *)
(***************************************************************************)
\* main.rs:14-39, face.rs:100-102  the server task lives in the runtime of main:
\* it serves requests until main is gone.
ProcessRuns == pc # "panicked"

\* face.rs:112-117  a POST /command arrives and its handler calls
\* cmd_tx.send(payload.command).  Requests are numbered in arrival order and
\* the payload of request h is the task string h.
Post(h) ==
    /\ ProcessRuns
    /\ handler[h] = "new"
    /\ \A g \in Handlers : g < h => handler[g] # "new"
    /\ handler' = [handler EXCEPT ![h] = "sending"]
    /\ sent_during' = [sent_during EXCEPT ![h] = IF pc = "idle" THEN 0 ELSE Len(started)]
    /\ UNCHANGED <<auxVars, cmd_chan, pc, command, step_count, conversation, memory_file, tab,
                   tabs_opened, jobs, join, trace, accepted, started, replies_used, faults>>

\* Mutant of HasCapacity: the channel is unbounded.
HasCapacityAlways(chan) == TRUE

\* face.rs:64  the send of a bounded channel completes when the buffer has a
\* free slot.
HasCapacity(chan) == Len(chan) < CMD_CHANNEL_CAPACITY

\* Mutant of SendComplete: a send that finds the slot taken replaces the
\* command waiting in it.
SendCompleteOverwrite(h) ==
    /\ ProcessRuns
    /\ handler[h] = "sending"
    /\ cmd_chan' = IF HasCapacity(cmd_chan) THEN Append(cmd_chan, h) ELSE <<h>>
    /\ handler' = [handler EXCEPT ![h] = "acked"]
    /\ sent_during' = [sent_during EXCEPT ![h] = 0]
    /\ accepted' = Append(accepted, h)
    /\ UNCHANGED <<auxVars, pc, command, step_count, conversation, memory_file, tab, tabs_opened,
                   jobs, join, trace, started, replies_used, faults>>

\* Mutant of SendComplete: the send is taken only by a loop that is waiting
\* for a command.
SendCompleteWhenIdle(h) ==
    /\ ProcessRuns
    /\ handler[h] = "sending"
    /\ HasCapacity(cmd_chan)
    /\ pc = "idle"
    /\ cmd_chan' = Append(cmd_chan, h)
    /\ handler' = [handler EXCEPT ![h] = "acked"]
    /\ sent_during' = [sent_during EXCEPT ![h] = 0]
    /\ accepted' = Append(accepted, h)
    /\ UNCHANGED <<auxVars, pc, command, step_count, conversation, memory_file, tab, tabs_opened,
                   jobs, join, trace, started, replies_used, faults>>

\* face.rs:117-118  the send completes and the handler answers "ok".
SendComplete(h) ==
    /\ ProcessRuns
    /\ handler[h] = "sending"
    /\ HasCapacity(cmd_chan)
    /\ cmd_chan' = Append(cmd_chan, h)
    /\ handler' = [handler EXCEPT ![h] = "acked"]
    /\ sent_during' = [sent_during EXCEPT ![h] = 0]
    /\ accepted' = Append(accepted, h)
    /\ UNCHANGED <<auxVars, pc, command, step_count, conversation, memory_file, tab, tabs_opened,
                   jobs, join, trace, started, replies_used, faults>>

(***************************************************************************)
(* main.rs: main and run_task, one action per stretch between two awaits.  *)
(***************************************************************************)
\* Mutant of StartTask: the history is cut back to the system turn first.
StartTaskTruncates(conv, user_prompt) == <<conv[1], TaskTurn(user_prompt)>>

\* Mutant of StartTask: the task is pushed as an assistant turn when the
\* history already ends with a user turn.
StartTaskAlternates(conv, user_prompt) ==
    IF conv[Len(conv)].role = "user"
    THEN Append(conv, [role |-> "assistant", content |-> [task |-> user_prompt]])
    ELSE Append(conv, TaskTurn(user_prompt))

\* brain.rs:82-94  start_task: the conversation after the push.
StartTask(conv, user_prompt) == Append(conv, TaskTurn(user_prompt))

\* Mutant of Observe: a page whose step failed is not fed back.
ObserveSkipsFailed(conv, page_state) ==
    IF page_state.error # <<>> THEN conv ELSE Append(conv, ObservationTurn(page_state))

\* brain.rs:97-116  observe: the conversation after the push.
Observe(conv, page_state) == Append(conv, ObservationTurn(page_state))

\* Mutant of AwaitsCommand: main takes the next command without waiting for
\* run_task to return.
AwaitsCommandAlways == TRUE

\* main.rs:33  cmd_rx.recv() is awaited by main between two run_task calls.
AwaitsCommand == pc = "idle"

\* main.rs:33-54  recv returns a command; run_task starts: start_task, a new
\* tab for the task, step_count = 0.
RecvCommand ==
    /\ AwaitsCommand
    /\ cmd_chan # <<>>
    /\ \E save \in SaveOutcomes(faults) :
       \E opened \in NewTabOutcomes(faults) :
         LET user_command == Head(cmd_chan)
             conv == StartTask(conversation, user_command)
         IN /\ cmd_chan' = Tail(cmd_chan)
            /\ command' = <<user_command>>
            /\ conversation' = conv
            /\ memory_file' = SaveMemory(memory_file, conv, save)
            /\ tab' = NewTabHandle(tab, opened, tabs_opened + 1)
            /\ tabs_opened' = IF opened THEN tabs_opened + 1 ELSE tabs_opened
            /\ step_count' = 0
            /\ pc' = "loop"
            /\ started' = Append(started, user_command)
            /\ trace' = trace \o <<[kind |-> "recv", command |-> user_command],
                                   [kind |-> "new_tab", ok |-> opened]>>
            /\ faults' = faults + Faulty(SaveCost(save) + NewTabCost(opened))
    /\ UNCHANGED <<auxVars, handler, sent_during, jobs, join, accepted, replies_used>>

\* Mutant of BudgetExhausted: the comparison is off by one.
BudgetExhaustedLate(n) == n > MAX_STEPS_PER_TASK

\* main.rs:57
BudgetExhausted(n) == n >= MAX_STEPS_PER_TASK

\* main.rs:56-68  top of the loop: the budget check, then Thinking and the
\* call of decide_next_step.
LoopTop ==
    /\ pc = "loop"
    /\ EventSendReturns(subs)
    /\ IF BudgetExhausted(step_count)
       THEN /\ trace' = Append(trace, TaskError(LimitMessage))
            /\ pc' = "finish"
       ELSE /\ trace' = trace \o <<Thinking, [kind |-> "decide_call"]>>
            /\ pc' = "deciding"
    /\ UNCHANGED <<auxVars, handler, sent_during, cmd_chan, command, step_count, conversation, memory_file, tab,
                   tabs_opened, jobs, join, accepted, started, replies_used, faults>>

\* Mutant of IsDone: Done is not recognised as terminal and falls through
\* to the Step event and the executor.
IsDoneNever(step) == FALSE

\* main.rs:84
IsDone(step) == step.action = "Done"

\* Mutant of DecideFailed: after the TaskError the loop goes round again.
DecideFailedRetries(decided, e) ==
    /\ trace' = trace \o <<decided, TaskError(e)>>
    /\ pc' = "loop"
    /\ UNCHANGED <<step_count, tab, tabs_opened, jobs>>

\* Mutant of DecideFailed: the failed call is counted as a step.
DecideFailedCounts(decided, e) ==
    /\ trace' = trace \o <<decided, TaskError(e)>>
    /\ pc' = "finish"
    /\ step_count' = step_count + 1
    /\ UNCHANGED <<tab, tabs_opened, jobs>>

\* main.rs:71-80  Err(e): TaskError with the error text, then break.
DecideFailed(decided, e) ==
    /\ trace' = trace \o <<decided, TaskError(e)>>
    /\ pc' = "finish"
    /\ UNCHANGED <<step_count, tab, tabs_opened, jobs>>

\* main.rs:82-90  Done: TaskComplete with the summary, then break.
DecideDone(decided, step) ==
    /\ step_count' = step_count + 1
    /\ trace' = trace \o <<decided, TaskComplete(step.summary)>>
    /\ pc' = "finish"
    /\ UNCHANGED <<tab, tabs_opened, jobs>>

\* main.rs:82, 92-110  any other step: new_tab for NewTab, the Step event,
\* then the step and the current tab are handed to spawn_blocking.
DecideStep(decided, step, opened) ==
    LET calls == step = NewTab
        now == IF calls THEN NewTabHandle(tab, opened, tabs_opened + 1) ELSE tab
    IN /\ step_count' = step_count + 1
       /\ tab' = now
       /\ tabs_opened' = IF calls /\ opened THEN tabs_opened + 1 ELSE tabs_opened
       /\ trace' = trace \o <<decided>>
            \o (IF calls THEN <<[kind |-> "new_tab", ok |-> opened]>> ELSE <<>>)
            \o <<StepEvent(step_count + 1, DebugFmt(step))>>
       /\ jobs' = Append(jobs, [tab |-> now, step |-> step])
       /\ pc' = "executing"

\* main.rs:68-110  decide_next_step returns: an error ends the task, Done
\* ends the task, any other step is announced and handed to a worker thread.
DecideReturn ==
    /\ pc = "deciding"
    /\ EventSendReturns(subs)
    /\ \E resp \in Responses(replies_used, faults) :
       \E d \in {DecideNextStep(conversation, resp)} :
       LET decided == [kind |-> "decided", response |-> resp, result |-> d.result] IN
       \E save \in (IF d.saves THEN SaveOutcomes(faults) ELSE {"none"}) :
         \E opened \in (IF d.result.ok /\ d.result.step = NewTab
                        THEN NewTabOutcomes(faults) ELSE {TRUE}) :
           /\ conversation' = d.conversation
           /\ memory_file' = IF d.saves THEN SaveMemory(memory_file, d.conversation, save)
                             ELSE memory_file
           /\ replies_used' = replies_used + ReplyCost(resp)
           /\ faults' = faults + Faulty(FaultCost(resp) + NewTabCost(opened)
                                         + (IF d.saves THEN SaveCost(save) ELSE 0))
           /\ IF ~d.result.ok THEN DecideFailed(decided, d.result.error)
              ELSE IF IsDone(d.result.step) THEN DecideDone(decided, d.result.step)
              ELSE DecideStep(decided, d.result.step, opened)
    /\ UNCHANGED <<auxVars, handler, sent_during, cmd_chan, command, join, accepted, started>>

\* main.rs:110-131  a worker thread runs the closure: the step on the tab,
\* then the page reads; its value goes to the JoinHandle.
WorkerRun ==
    /\ jobs # <<>>
    /\ \E i \in 1..Len(jobs) :
       \E outcome \in BrowserOutcomes(jobs[i].step, faults) :
       \E reads \in PageReads(faults) :
         LET page_state == IF reads.panics THEN JoinError
                           ELSE BlockingStep(jobs[i].step, outcome, reads)
         IN
         /\ jobs' = SubSeq(jobs, 1, i - 1) \o SubSeq(jobs, i + 1, Len(jobs))
         /\ join' = page_state
         /\ faults' = faults + Faulty(OutcomeCost(jobs[i].step, outcome) + reads.cost)
         /\ trace' = Append(trace, [kind |-> "exec", step |-> jobs[i].step,
                                    tab |-> jobs[i].tab, failed |-> outcome.failed,
                                    page_state |-> page_state])
    /\ UNCHANGED <<auxVars, handler, sent_during, cmd_chan, pc, command, step_count, conversation, memory_file,
                   tab, tabs_opened, accepted, started, replies_used>>

\* main.rs:132-143  the JoinHandle resolves: StepError when the step failed,
\* then observe, then back to the top of the loop.
JoinReturn ==
    /\ pc = "executing"
    /\ join # NoResult
    /\ join # JoinError
    /\ join.error # <<>> => EventSendReturns(subs)
    /\ \E save \in SaveOutcomes(faults) :
       LET conv == Observe(conversation, join) IN
       /\ trace' = trace
            \o (IF join.error # <<>> THEN <<StepError(join.error[1])>> ELSE <<>>)
            \o <<[kind |-> "observe", page_state |-> join]>>
       /\ conversation' = conv
       /\ memory_file' = SaveMemory(memory_file, conv, save)
       /\ faults' = faults + SaveCost(save)
       /\ join' = NoResult
       /\ pc' = "loop"
    /\ UNCHANGED <<auxVars, handler, sent_during, cmd_chan, command, step_count, tab, tabs_opened, jobs,
                   accepted, started, replies_used>>

\* main.rs:132-133, 35  the JoinHandle resolves to the JoinError: unwrap
\* panics in run_task, which main awaits, and the process exits with the
\* session unfinished.
JoinUnwrapPanics ==
    /\ pc = "executing"
    /\ join = JoinError
    /\ pc' = "panicked"
    /\ join' = NoResult
    /\ trace' = Append(trace, [kind |-> "panic"])
    /\ UNCHANGED <<auxVars, handler, sent_during, cmd_chan, command, step_count, conversation,
                   memory_file, tab, tabs_opened, jobs, accepted, started, replies_used, faults>>

\* main.rs:145-146, 33  Ready is sent, run_task returns and main awaits the
\* next command.
SendReady ==
    /\ pc = "finish"
    /\ EventSendReturns(subs)
    /\ trace' = Append(trace, Ready)
    /\ pc' = "idle"
    /\ command' = <<>>
    /\ UNCHANGED <<auxVars, handler, sent_during, cmd_chan, step_count, conversation, memory_file, tab,
                   tabs_opened, jobs, join, accepted, started, replies_used, faults>>

\* The steps of a run in which no closure panics.
LoopNext ==
    \/ \E h \in Handlers : Post(h)
    \/ \E h \in Handlers : SendComplete(h)
    \/ RecvCommand
    \/ LoopTop
    \/ DecideReturn
    \/ WorkerRun
    \/ JoinReturn
    \/ SendReady

Next == LoopNext \/ JoinUnwrapPanics

Spec == Init /\ [][Next]_vars

\* The runtime schedules the orchestration task and the worker thread
\* whenever they can run; the decision service and the browser answer
\* every call.
FairSpec ==
    /\ Spec
    /\ WF_vars(RecvCommand)
    /\ WF_vars(LoopTop)
    /\ WF_vars(DecideReturn)
    /\ WF_vars(WorkerRun)
    /\ WF_vars(JoinReturn)
    /\ WF_vars(JoinUnwrapPanics)
    /\ WF_vars(SendReady)

(***************************************************************************)
(* face.rs: command_handler under load.  Three requests, a decision        *)
(* service that gives at most one reply other than the plain Done, and no  *)
(* failing call.                                                           *)
(***************************************************************************)
IntakeInit ==
    /\ handler = [h \in 1..MaxRequests |-> "new"]
    /\ sent_during = [h \in 1..MaxRequests |-> 0]
    /\ cmd_chan = <<>> /\ pc = "idle" /\ command = <<>> /\ step_count = 0
    /\ conversation = <<SystemTurn>>
    /\ memory_file = NoFile
    /\ tab = 0 /\ tabs_opened = 0 /\ jobs = <<>> /\ join = NoResult
    /\ trace = <<>> /\ accepted = <<>> /\ started = <<>>
    /\ replies_used = MaxReplies - 1
    /\ faults = MaxFaults
    /\ subs = <<>>
    /\ NoSnapshot
    /\ NoCall

\* With the fault budget spent from the start no closure panics.
IntakeSpec == IntakeInit /\ [][LoopNext]_vars

(***************************************************************************)
(* face.rs: sse_handler.  The task loop with clients of GET /events: each  *)
(* subscribes to the broadcast channel and is served from its stream.      *)
(***************************************************************************)
NotSubscribed == [state |-> "none"]
Closed == [state |-> "closed"]

\* face.rs:124  subscribe: the receiver sees what is sent from now on.
Subscribed(sent) == [state |-> "open", since |-> sent + 1, next |-> sent + 1, got |-> <<>>]

\* face.rs:65  the channel keeps the last 64 events; a receiver whose next
\* event has been overwritten is lagging.
Lagging(next, sent) == sent - next + 1 > EVENT_CHANNEL_CAPACITY

\* The oldest event the channel still keeps.
OldestKept(sent) == sent - EVENT_CHANNEL_CAPACITY + 1

\* The run the clients watch: one command, a decision service that gives
\* at most one reply other than the plain Done, and no failing call.
BusInit ==
    /\ handler = [h \in 1..1 |-> "new"]
    /\ sent_during = [h \in 1..1 |-> 0]
    /\ cmd_chan = <<>> /\ pc = "idle" /\ command = <<>> /\ step_count = 0
    /\ conversation = <<SystemTurn>>
    /\ memory_file = NoFile
    /\ tab = 0 /\ tabs_opened = 0 /\ jobs = <<>> /\ join = NoResult
    /\ trace = <<>> /\ accepted = <<>> /\ started = <<>>
    /\ replies_used = MaxReplies - 1
    /\ faults = MaxFaults
    /\ subs = [s \in 1..MaxSubscribers |-> NotSubscribed]
    /\ NoSnapshot
    /\ NoCall

agentVars == <<handler, sent_during, cmd_chan, pc, command, step_count, conversation,
               memory_file, tab, tabs_opened, jobs, join, trace, accepted, started,
               replies_used, faults>>

\* face.rs:121-124  a client opens GET /events.
Subscribe(s) ==
    /\ subs[s] = NotSubscribed
    /\ \A r \in DOMAIN subs : r < s => subs[r] # NotSubscribed
    /\ subs' = [subs EXCEPT ![s] = Subscribed(Len(Published))]
    /\ UNCHANGED <<agentVars, page, walked, raw, captured, fnVars>>

\* Mutant of StreamNext: the stream gives the newest event only, as a watch
\* channel would.
StreamNextNewestOnly(s) ==
    /\ subs[s].state = "open"
    /\ subs[s].next <= Len(Published)
    /\ subs' = [subs EXCEPT ![s] =
          [@ EXCEPT !.next = Len(Published) + 1,
                    !.got = Append(@, [pos |-> Len(Published),
                                       event |-> Published[Len(Published)]])]]
    /\ UNCHANGED <<agentVars, page, walked, raw, captured, fnVars>>

\* face.rs:125-130  the stream is polled: the next event goes to the client
\* as an SSE event; a Lagged error of the receiver is filtered out, and the
\* receiver goes on from the oldest event the channel still keeps.
StreamNext(s) ==
    /\ subs[s].state = "open"
    /\ subs[s].next <= Len(Published)
    /\ subs' = [subs EXCEPT ![s] =
          IF Lagging(subs[s].next, Len(Published))
          THEN [@ EXCEPT !.next = OldestKept(Len(Published))]
          ELSE [@ EXCEPT !.next = @ + 1,
                         !.got = Append(@, [pos |-> subs[s].next,
                                            event |-> Published[subs[s].next]])]]
    /\ UNCHANGED <<agentVars, page, walked, raw, captured, fnVars>>

\* The client goes away and the stream is dropped.
Disconnect(s) ==
    /\ subs[s].state = "open"
    /\ subs' = [subs EXCEPT ![s] = Closed]
    /\ UNCHANGED <<agentVars, page, walked, raw, captured, fnVars>>

BusNext ==
    \/ LoopNext
    \/ \E s \in DOMAIN subs : Subscribe(s)
    \/ \E s \in DOMAIN subs : StreamNext(s)
    \/ \E s \in DOMAIN subs : Disconnect(s)

BusSpec == BusInit /\ [][BusNext]_vars

\* The orchestration task and the worker are scheduled as in FairSpec; no
\* client is obliged to read its stream, or to be there at all.
BusFairSpec ==
    /\ BusSpec
    /\ WF_vars(\E h \in DOMAIN handler : SendComplete(h))
    /\ WF_vars(RecvCommand)
    /\ WF_vars(LoopTop)
    /\ WF_vars(DecideReturn)
    /\ WF_vars(WorkerRun)
    /\ WF_vars(JoinReturn)
    /\ WF_vars(SendReady)

(***************************************************************************)
(* dom.rs: SNAPSHOT_JS, the script that walks the page.  An element is a   *)
(* record of its tag, whether isVisible holds for it, the text of its own  *)
(* text nodes and its child elements.                                      *)
(***************************************************************************)
Element(tag, visible, text, kids) ==
    [tag |-> tag, visible |-> visible, text |-> text, kids |-> kids]

\* dom.rs:18
SKIP == {"script", "style", "noscript", "svg", "link"}

\* dom.rs:35
InteractiveTags == {"a", "button", "input", "textarea", "select"}

RECURSIVE TextContent(_)
\* Node.textContent: the text of the element and of everything below it.
TextContent(el) ==
    IF el.kids = <<>> THEN el.text
    ELSE el.text \o TextContent(el.kids[1])
         \o (IF Len(el.kids) > 1 THEN TextContent(el.kids[2]) ELSE "")

\* dom.rs:38  '[e' + (id++) + ']'
Eid(id) == "[e" \o ToString(id) \o "]"

\* dom.rs:41-52  the line describing an interactive element.  The texts of
\* the pages drawn here are shorter than the cuts of slice and carry no
\* outer white space; inputs have no type, placeholder, name or value.
Describe(el, eid) ==
    CASE el.tag = "a" -> eid \o " link \"" \o TextContent(el) \o "\""
      [] el.tag = "button" -> eid \o " button \"" \o TextContent(el) \o "\""
      [] el.tag \in {"input", "textarea"} ->
            eid \o " " \o el.tag \o " type=text placeholder=\"\""
      [] el.tag = "select" -> eid \o " select []"

\* dom.rs:19-21  the state of one run of the script: the counter, the lines,
\* the set seen; and, beside them, the data-eid attributes set so far.
NewWalk == [id |-> 0, lines |-> <<>>, seen |-> {}, eids |-> <<>>]

\* dom.rs:37-56  an interactive element takes the next id, gets it as its
\* data-eid, and its line is pushed unless seen already has it.
VisitInteractive(el, w) ==
    LET eid == Eid(w.id)
        desc == Describe(el, eid)
        emit == desc # "" /\ desc \notin w.seen
    IN [id |-> w.id + 1,
        lines |-> IF emit THEN Append(w.lines, desc) ELSE w.lines,
        seen |-> IF emit THEN w.seen \cup {desc} ELSE w.seen,
        eids |-> Append(w.eids, [eid |-> eid, desc |-> desc])]

\* dom.rs:57-66  any other element: its text is pushed, in quotes, when it
\* is a leaf, the text has 3 to 199 characters and seen does not have it.
VisitOther(el, w) ==
    LET text == TextContent(el)
        emit == /\ text # "" /\ Len(text) > 2 /\ Len(text) < 200
                /\ el.kids = <<>>
                /\ text \notin w.seen
    IN [w EXCEPT !.lines = IF emit THEN Append(@, "  \"" \o text \o "\"") ELSE @,
                 !.seen = IF emit THEN @ \cup {text} ELSE @]

RECURSIVE Walk(_, _, _)
\* dom.rs:29-69  walk(node, depth) over the children of node, in order.
Walk(kids, depth, w) ==
    IF depth > SNAPSHOT_MAX_DEPTH \/ kids = <<>> THEN w
    ELSE LET child == Head(kids) IN
         IF child.tag \in SKIP \/ ~child.visible
         THEN Walk(Tail(kids), depth, w)
         ELSE LET visited == IF child.tag \in InteractiveTags
                             THEN VisitInteractive(child, w)
                             ELSE VisitOther(child, w)
              IN Walk(Tail(kids), depth, Walk(child.kids, depth + 1, visited))

\* dom.rs:71-72  walk(document.body, 0); the lines are what is returned.
SnapshotJs(body_children) == Walk(body_children, 0, NewWalk)

\* The pages the script is run on: up to two elements under body, each
\* with up to one child, which may have a child of its own.
Tags == {"a", "input", "span", "script"}
Texts == {"", "Hi", "Home", "[e0] link \"Home\""}
Leaves == {Element(t, v, x, <<>>) : t \in {"a", "span"}, v \in BOOLEAN, x \in {"Home"}}
Inner == {Element(t, TRUE, "", <<k>>) : t \in {"a", "span"}, k \in Leaves}
Tops ==
    {Element(t, v, x, <<>>) : t \in Tags, v \in BOOLEAN, x \in Texts}
    \cup {Element(t, TRUE, "", <<k>>) : t \in {"a", "span"}, k \in Leaves \cup Inner}
Pages == {<<a>> : a \in Tops} \cup {<<a, b>> : a \in Tops, b \in Tops}

SnapshotInit ==
    /\ page \in Pages
    /\ walked = <<>>
    /\ raw = <<>> /\ captured = <<>>
    /\ NoCall
    /\ subs = <<>>
    /\ handler = [h \in 1..MaxCommands |-> "new"]
    /\ sent_during = [h \in 1..MaxCommands |-> 0]
    /\ cmd_chan = <<>> /\ pc = "idle" /\ command = <<>> /\ step_count = 0
    /\ conversation = <<SystemTurn>>
    /\ memory_file = NoFile
    /\ tab = 0 /\ tabs_opened = 0 /\ jobs = <<>> /\ join = NoResult
    /\ trace = <<>> /\ accepted = <<>> /\ started = <<>>
    /\ replies_used = 0 /\ faults = 0

\* dom.rs:78  tab.evaluate(SNAPSHOT_JS) runs the script on the page.
EvaluateSnapshotJs ==
    /\ walked = <<>>
    /\ walked' = <<SnapshotJs(page)>>
    /\ UNCHANGED <<agentVars, subs, page, raw, captured, fnVars>>

SnapshotSpec == SnapshotInit /\ [][EvaluateSnapshotJs]_vars

(***************************************************************************)
(* dom.rs: capture_dom_snapshot.  The text the script returned is a        *)
(* sequence of characters; a Rust String holds it in UTF-8, where a        *)
(* character takes one byte or more.                                       *)
(***************************************************************************)
\* Two characters stand for all: "a", of one byte, and "u", written for a
\* letter outside ASCII such as u-umlaut, of two bytes.
Chars == {"a", "u"}

\* The bytes of one character in UTF-8.
Utf8Len(c) == IF c = "a" THEN 1 ELSE 2

RECURSIVE ByteLen(_)
\* dom.rs:84,88  String::len: the length in bytes.
ByteLen(text) ==
    IF text = <<>> THEN 0 ELSE Utf8Len(Head(text)) + ByteLen(Tail(text))

RECURSIVE Display(_)
\* The characters of a text as one string.
Display(text) ==
    IF text = <<>> THEN "" ELSE Head(text) \o Display(Tail(text))

\* The prefixes of the text that take exactly n bytes: one if n falls
\* between two characters, none if it falls inside a character.
PrefixesOfBytes(text, n) ==
    {k \in 0..Len(text) : ByteLen(SubSeq(text, 1, k)) = n}

\* dom.rs:86  the marker appended to a truncated snapshot.
TruncationMarker(total) ==
    "\n... [truncated, " \o ToString(total) \o " total chars]"

\* dom.rs:84-92  over the budget in bytes, the text is cut at the budget,
\* which panics inside a character, and the marker with the byte length
\* follows; otherwise the text is returned as it is.
CaptureDomSnapshot(text) ==
    IF ByteLen(text) > DOM_SNAPSHOT_MAX_CHARS
    THEN IF PrefixesOfBytes(text, DOM_SNAPSHOT_MAX_CHARS) = {}
         THEN [kind |-> "panic"]
         ELSE LET k == Only(PrefixesOfBytes(text, DOM_SNAPSHOT_MAX_CHARS)) IN
              [kind |-> "ok",
               kept |-> SubSeq(text, 1, k),
               marker |-> TruncationMarker(ByteLen(text)),
               output |-> Display(SubSeq(text, 1, k))
                          \o TruncationMarker(ByteLen(text))]
    ELSE [kind |-> "ok", kept |-> text, marker |-> "", output |-> Display(text)]

RawTexts == UNION {[1..n -> Chars] : n \in 0..MaxRawChars}

CaptureInit ==
    /\ raw \in RawTexts
    /\ captured = <<>>
    /\ page = <<>> /\ walked = <<>>
    /\ NoCall
    /\ subs = <<>>
    /\ handler = [h \in 1..MaxCommands |-> "new"]
    /\ sent_during = [h \in 1..MaxCommands |-> 0]
    /\ cmd_chan = <<>> /\ pc = "idle" /\ command = <<>> /\ step_count = 0
    /\ conversation = <<SystemTurn>>
    /\ memory_file = NoFile
    /\ tab = 0 /\ tabs_opened = 0 /\ jobs = <<>> /\ join = NoResult
    /\ trace = <<>> /\ accepted = <<>> /\ started = <<>>
    /\ replies_used = 0 /\ faults = 0

\* dom.rs:77-93  one call of capture_dom_snapshot on the text.
Capture ==
    /\ captured = <<>>
    /\ captured' = <<CaptureDomSnapshot(raw)>>
    /\ UNCHANGED <<agentVars, subs, page, walked, raw, fnVars>>

CaptureSpec == CaptureInit /\ [][Capture]_vars

(***************************************************************************)
(* main.rs: execute_step_on_tab on an Extract step, on its own.            *)
(***************************************************************************)
NoElement == [found |-> FALSE]
ElementWithText(text) == [found |-> TRUE, text |-> text]

\* main.rs:190  (document.querySelector(sel) || {}).innerText || '' : the
\* text of the element, the empty string when there is none.
EvaluateInnerText(el) == IF el.found THEN el.text ELSE <<>>

ExtractSteps ==
    {[action |-> "Extract", selector |-> "body", label |-> l] : l \in {"result", "price"}}

ElementTexts == UNION {[1..n -> Chars] : n \in 0..MaxTextChars}

ExtractInit ==
    /\ target \in {[step |-> st, element |-> el] :
                      st \in ExtractSteps,
                      el \in {NoElement} \cup {ElementWithText(t) : t \in ElementTexts}}
    /\ extraction = <<>>
    /\ reply = <<>> /\ decoded = <<>>
    /\ NoSnapshot
    /\ subs = <<>>
    /\ handler = [h \in 1..MaxCommands |-> "new"]
    /\ sent_during = [h \in 1..MaxCommands |-> 0]
    /\ cmd_chan = <<>> /\ pc = "idle" /\ command = <<>> /\ step_count = 0
    /\ conversation = <<SystemTurn>>
    /\ memory_file = NoFile
    /\ tab = 0 /\ tabs_opened = 0 /\ jobs = <<>> /\ join = NoResult
    /\ trace = <<>> /\ accepted = <<>> /\ started = <<>>
    /\ replies_used = 0 /\ faults = 0

\* main.rs:187-201, 114-117  the Extract step on the tab: evaluate fails, or
\* gives the text of the element.
ExecuteExtract ==
    /\ extraction = <<>>
    /\ \E failed \in {"", "evaluate"} :
         extraction' = <<[failed |-> failed,
                          returned |-> ExecuteStepOnTab(target.step,
                                          [failed |-> failed,
                                           text |-> IF failed = "" THEN EvaluateInnerText(target.element)
                                                    ELSE NoInnerText])]>>
    /\ UNCHANGED <<agentVars, subs, page, walked, raw, captured, target, reply, decoded>>

ExtractSpec == ExtractInit /\ [][ExecuteExtract]_vars

(***************************************************************************)
(* brain.rs: decide_next_step on the reply text, on its own.               *)
(***************************************************************************)
\* The fields a reply object may carry, with the values given to them.
FieldValues ==
    [url |-> "https://x", selector |-> "body", timeout_ms |-> 5000, text |-> "X",
     key |-> "Enter", label |-> "result", summary |-> "found X"]

\* The nine tags, one outside the set, and one of the set in the wrong case.
ReplyTags == StepTags \cup {"Hover", "navigate"}

\* Reply objects: with or without the tag, with any of the fields.
ReplyObjects ==
    {[f \in fs \cup {"action"} |-> IF f = "action" THEN tag ELSE FieldValues[f]] :
        tag \in ReplyTags, fs \in SUBSET DOMAIN FieldValues}
    \cup {[f \in fs |-> FieldValues[f]] : fs \in SUBSET DOMAIN FieldValues}

\* The reply as the service writes it: bare, or inside markdown fences.
ReplyTexts(v) == {<<Object(v)>>, <<FenceJson, Ws, Object(v), Ws, Fence>>}

DecodeInit ==
    /\ reply \in UNION {ReplyTexts(v) : v \in ReplyObjects}
    /\ decoded = <<>>
    /\ target = <<>> /\ extraction = <<>>
    /\ NoSnapshot
    /\ subs = <<>>
    /\ handler = [h \in 1..MaxCommands |-> "new"]
    /\ sent_during = [h \in 1..MaxCommands |-> 0]
    /\ cmd_chan = <<>> /\ pc = "idle" /\ command = <<>> /\ step_count = 0
    /\ conversation = <<SystemTurn>>
    /\ memory_file = NoFile
    /\ tab = 0 /\ tabs_opened = 0 /\ jobs = <<>> /\ join = NoResult
    /\ trace = <<>> /\ accepted = <<>> /\ started = <<>>
    /\ replies_used = 0 /\ faults = 0

\* brain.rs:157-192  decide_next_step once the reply text is there: the turn
\* is pushed, the text is stripped and decoded.
DecodeReply ==
    /\ decoded = <<>>
    /\ \E d \in {DecideNextStep(conversation, Content(reply))} :
         /\ decoded' = <<d.result>>
         /\ conversation' = d.conversation
    /\ UNCHANGED <<handler, sent_during, cmd_chan, pc, command, step_count, memory_file, tab,
                   tabs_opened, jobs, join, trace, accepted, started, replies_used, faults,
                   subs, page, walked, raw, captured, target, extraction, reply>>

DecodeSpec == DecodeInit /\ [][DecodeReply]_vars

(***************************************************************************)
(* dom.rs: SNAPSHOT_JS run again and again on a page that changes.  An     *)
(* element here also has its data-eid attribute, empty while it has none.  *)
(***************************************************************************)
Unlabelled(tag, visible) ==
    [tag |-> tag, visible |-> visible, text |-> "Home", kids |-> <<>>, eid |-> ""]

RECURSIVE Stamp(_, _, _)
\* dom.rs:29-39, 67  the attributes the walk leaves on the children of a
\* node: setAttribute on every interactive element it reaches, with the id
\* of the counter; no attribute is taken away.
Stamp(kids, depth, id) ==
    IF depth > SNAPSHOT_MAX_DEPTH \/ kids = <<>> THEN [kids |-> kids, id |-> id]
    ELSE LET child == Head(kids) IN
         IF child.tag \in SKIP \/ ~child.visible
         THEN LET rest == Stamp(Tail(kids), depth, id) IN
              [kids |-> <<child>> \o rest.kids, id |-> rest.id]
         ELSE LET interactive == child.tag \in InteractiveTags
                  below == Stamp(child.kids, depth + 1, IF interactive THEN id + 1 ELSE id)
                  rest == Stamp(Tail(kids), depth, below.id)
              IN [kids |-> <<[child EXCEPT !.kids = below.kids,
                                           !.eid = IF interactive THEN Eid(id) ELSE @]>>
                           \o rest.kids,
                  id |-> rest.id]

\* The children of body the walk labels, in the order of the walk.
Labelled(body_children) ==
    SelectSeq([i \in DOMAIN body_children |-> i],
              LAMBDA i : /\ body_children[i].tag \notin SKIP
                         /\ body_children[i].visible
                         /\ body_children[i].tag \in InteractiveTags)

\* main.rs:169, 179  find_element on the selector [data-eid="x"]: the first
\* element of the document that carries x, 0 when there is none.
Carriers(x) == {i \in DOMAIN page : page[i].eid = x}
FindElement(x) == IF Carriers(x) = {} THEN 0 ELSE CHOOSE i \in Carriers(x) : \A j \in Carriers(x) : i <= j

RelabelInit ==
    /\ page \in UNION {[1..n -> {Unlabelled(t, v) : t \in {"a", "button", "span"}, v \in BOOLEAN}] :
                        n \in 1..MaxPageElements}
    /\ walked = <<>>
    /\ raw = <<>> /\ captured = <<>>
    /\ NoCall
    /\ subs = <<>>
    /\ handler = [h \in 1..MaxCommands |-> "new"]
    /\ sent_during = [h \in 1..MaxCommands |-> 0]
    /\ cmd_chan = <<>> /\ pc = "idle" /\ command = <<>> /\ step_count = 0
    /\ conversation = <<SystemTurn>>
    /\ memory_file = NoFile
    /\ tab = 0 /\ tabs_opened = 0 /\ jobs = <<>> /\ join = NoResult
    /\ trace = <<>> /\ accepted = <<>> /\ started = <<>>
    /\ replies_used = 0 /\ faults = 0

\* dom.rs:78, 16-74  one more run of the script on the page as it is now:
\* the lines it returns, and the attributes it leaves on the page.
SnapshotAgain ==
    /\ Len(walked) < MaxSnapshots
    /\ walked' = Append(walked, [snapshot |-> SnapshotJs(page), at |-> Labelled(page)])
    /\ page' = Stamp(page, 0, 0).kids
    /\ UNCHANGED <<agentVars, subs, raw, captured, fnVars>>

\* The page shows or hides one of its elements between two snapshots.
PageChanges ==
    /\ walked # <<>>
    /\ Len(walked) < MaxSnapshots
    /\ \E i \in DOMAIN page : page' = [page EXCEPT ![i].visible = ~@]
    /\ UNCHANGED <<agentVars, subs, walked, raw, captured, fnVars>>

RelabelSpec == RelabelInit /\ [][SnapshotAgain \/ PageChanges]_vars

(***************************************************************************)
(* brain.rs on its own: the conversation store over the life of            *)
(* memory.json.  The process is started on a file left by an earlier run   *)
(* or by anyone else, the three appending operations of Brain are called   *)
(* in any order, and the process may exit and be started again.  An empty  *)
(* conversation stands for "no Brain exists".                              *)
(***************************************************************************)
\* A system record that is not the prompt of this build.
OldSystemTurn == [role |-> "system", content |-> [prompt |-> "OLD_PROMPT"]]

\* What memory.json can hold when the process starts.
StartFiles ==
    {NoFile, LockedFile, PartialFile,
     TextFile(JsonString("notes")),
     TextFile(JsonArray(<<>>)),
     TextFile(JsonArray(<<JsonObject([role |-> JsonString("system")])>>)),
     TextFile(JsonArray(<<JsonObject([role |-> JsonString("system"),
                                      content |-> JsonString([prompt |-> "OLD_PROMPT"]),
                                      name |-> JsonString("agent")])>>)),
     SavedFile(<<TaskTurn(1), SystemTurn>>),
     SavedFile(<<SystemTurn>>),
     SavedFile(<<OldSystemTurn, TaskTurn(2)>>)}

\* The page states observe is called with in this specification.
StorePageStates ==
    {BlockingStep(Click, [failed |-> f, text |-> NoInnerText],
                  [url |-> "https://x/page", title |-> "Page", dom_snapshot |-> "[e0] link"]) :
        f \in {"", "find_element"}}

\* The responses decide_next_step gets in this specification.
StoreResponses == {Content(PlainDone), Content(<<Prose>>), NoContent}

StoreInit ==
    /\ conversation = <<>>
    /\ memory_file \in StartFiles
    /\ handler = [h \in 1..MaxCommands |-> "new"]
    /\ sent_during = [h \in 1..MaxCommands |-> 0]
    /\ cmd_chan = <<>> /\ pc = "idle" /\ command = <<>> /\ step_count = 0
    /\ tab = 0 /\ tabs_opened = 0 /\ jobs = <<>> /\ join = NoResult
    /\ trace = <<>> /\ accepted = <<>> /\ started = <<>>
    /\ replies_used = 0 /\ faults = 0
    /\ subs = <<>>
    /\ NoSnapshot
    /\ NoCall

\* What the store operations leave alone.
loopVars == <<handler, sent_during, cmd_chan, pc, command, step_count, tab, tabs_opened,
              jobs, join, trace, accepted, started, replies_used>>

\* brain.rs:39-59  the process starts: Brain::new.
BrainNew ==
    /\ conversation = <<>>
    /\ conversation' = BrainNewConversation(memory_file)
    /\ UNCHANGED <<memory_file, faults, loopVars, auxVars>>

\* The process ends; memory.json stays as the last write left it.
ProcessExit ==
    /\ conversation # <<>>
    /\ conversation' = <<>>
    /\ UNCHANGED <<memory_file, faults, loopVars, auxVars>>

\* brain.rs:74-79  the save at the end of each appending operation.
Persist(conv) ==
    \E save \in SaveOutcomes(faults) :
        /\ memory_file' = SaveMemory(memory_file, conv, save)
        /\ faults' = faults + SaveCost(save)

CanAppend == conversation # <<>> /\ Len(conversation) < MaxTurns

\* brain.rs:82-94
BrainStartTask ==
    /\ CanAppend
    /\ \E user_prompt \in Handlers :
          /\ conversation' = StartTask(conversation, user_prompt)
          /\ Persist(conversation')
    /\ UNCHANGED <<loopVars, auxVars>>

\* brain.rs:97-116
BrainObserve ==
    /\ CanAppend
    /\ \E page_state \in StorePageStates :
          /\ conversation' = Observe(conversation, page_state)
          /\ Persist(conversation')
    /\ UNCHANGED <<loopVars, auxVars>>

\* brain.rs:119-192  decide_next_step appends and saves when the response
\* has a content, whether or not the content then parses.
BrainDecideNextStep ==
    /\ CanAppend
    /\ \E resp \in StoreResponses :
       \E d \in {DecideNextStep(conversation, resp)} :
          /\ conversation' = d.conversation
          /\ IF d.saves THEN Persist(d.conversation)
             ELSE UNCHANGED <<memory_file, faults>>
    /\ UNCHANGED <<loopVars, auxVars>>

StoreNext ==
    \/ BrainNew
    \/ ProcessExit
    \/ BrainStartTask
    \/ BrainObserve
    \/ BrainDecideNextStep

StoreSpec == StoreInit /\ [][StoreNext]_vars

(***************************************************************************)
(* Reading the history.  A session is the stretch of the trace from one    *)
(* recv entry to the next.                                                 *)
(***************************************************************************)
Recvs == {j \in DOMAIN trace : trace[j].kind = "recv"}
LastOf(S) == CHOOSE i \in S : \A j \in S : j <= i
SessionOf(i) == Cardinality({j \in Recvs : j <= i})
Sessions == 1..Len(started)
StartIndex(s) == CHOOSE j \in Recvs : SessionOf(j) = s
EndIndex(s) == IF s < Cardinality(Recvs) THEN StartIndex(s + 1) - 1 ELSE Len(trace)
InSession(s) == StartIndex(s)..EndIndex(s)
KindIn(s, k) == {i \in InSession(s) : trace[i].kind = k}
Before(i, k) == {j \in LastOf({r \in Recvs : r <= i})..(i - 1) : trace[j].kind = k}
IsDecidedStep(i) == trace[i].kind = "decided" /\ trace[i].result.ok
IsDecidedDone(i) == IsDecidedStep(i) /\ trace[i].result.step.action = "Done"
IsDecidedError(i) == trace[i].kind = "decided" /\ ~trace[i].result.ok
IssuedIn(s) == {i \in InSession(s) : IsDecidedStep(i) /\ ~IsDecidedDone(i)}
Finished(s) == s < Len(started) \/ pc \in {"finish", "idle"}
Crashed(s) == s = Len(started) /\ pc = "panicked"
Ended(s) == Finished(s) \/ Crashed(s)
Returned(i) == trace[i].kind = "exec" /\ trace[i].page_state # JoinError
Last(seq) == seq[Len(seq)]

(***************************************************************************)
(* C1  A Done decision with summary X is followed at once by one           *)
(* TaskComplete event carrying X, the only one of the session; after it    *)
(* the session has nothing but Ready: no Step, no execution, no            *)
(* observation, no decide call; and until the next task starts the last    *)
(* turn of the conversation is still the assistant turn of that reply.     *)
(***************************************************************************)
C1_DoneCompletesTask ==
    \A i \in DOMAIN trace :
        IsDecidedDone(i) =>
            LET s == SessionOf(i) IN
            /\ i < Len(trace)
            /\ trace[i + 1] = TaskComplete(trace[i].result.step.summary)
            /\ KindIn(s, "TaskComplete") = {i + 1}
            /\ \A j \in InSession(s) : j > i + 1 => j = i + 2 /\ trace[j] = Ready
            /\ s = Len(started) =>
                   /\ Last(conversation) = AssistantTurn(trace[i].response.content)
                   /\ jobs = <<>> /\ join = NoResult

\* A session that took a step and then got the fenced Done has returned.
C1_Witness ==
    /\ pc = "idle"
    /\ \E i \in DOMAIN trace :
          /\ IsDecidedDone(i)
          /\ trace[i].result.step.summary = "gave up"
          /\ Before(i, "Step") # {}
          /\ i + 2 = Len(trace)

(***************************************************************************)
(* C2  No session makes more than MAX_STEPS_PER_TASK decide calls or       *)
(* executes more than MAX_STEPS_PER_TASK actions, and a session in which   *)
(* MAX_STEPS_PER_TASK non-terminal actions were issued ends with exactly   *)
(* one TaskError, whose message is the one naming the limit, published     *)
(* after the last action was executed and observed.                        *)
(***************************************************************************)
C2_BudgetExhaustion ==
    \A s \in Sessions :
        /\ Cardinality(KindIn(s, "decide_call")) <= MAX_STEPS_PER_TASK
        /\ Cardinality(KindIn(s, "exec")) <= MAX_STEPS_PER_TASK
        /\ (Cardinality(IssuedIn(s)) = MAX_STEPS_PER_TASK /\ Finished(s)) =>
              /\ Cardinality(KindIn(s, "TaskError")) = 1
              /\ \A i \in KindIn(s, "TaskError") :
                    /\ trace[i] = TaskError(LimitMessage)
                    /\ Cardinality(Before(i, "exec")) = MAX_STEPS_PER_TASK
                    /\ Cardinality(Before(i, "observe")) = MAX_STEPS_PER_TASK
                    /\ \A j \in InSession(s) : j > i => trace[j] = Ready

(***************************************************************************)
(* C2, as claimed  In any session in which MAX_STEPS_PER_TASK non-terminal *)
(* actions were issued, one TaskError naming the limit is published: also  *)
(* in a session that ended with the panic of the closure of its last       *)
(* action.                                                                 *)
(***************************************************************************)
C2_LimitErrorAlwaysPublished ==
    \A s \in Sessions :
        /\ Cardinality(KindIn(s, "decide_call")) <= MAX_STEPS_PER_TASK
        /\ Cardinality(KindIn(s, "exec")) <= MAX_STEPS_PER_TASK
        /\ (Cardinality(IssuedIn(s)) = MAX_STEPS_PER_TASK /\ Ended(s)) =>
              /\ Cardinality(KindIn(s, "TaskError")) = 1
              /\ \A i \in KindIn(s, "TaskError") : trace[i] = TaskError(LimitMessage)

\* A session issued MAX_STEPS_PER_TASK non-terminal actions and returned.
C2_Witness ==
    /\ pc = "idle"
    /\ \E s \in Sessions : Cardinality(IssuedIn(s)) = MAX_STEPS_PER_TASK

(***************************************************************************)
(* C3  At most one blocking closure is in flight; every decide call is     *)
(* made, and every action is executed, only after each earlier action of   *)
(* the session was executed and observed; and while a later decide call    *)
(* is in flight the last turn of the conversation is the observation of    *)
(* the action executed last.                                               *)
(***************************************************************************)
C3_StepsSequential ==
    /\ Len(jobs) <= 1
    /\ \A i \in DOMAIN trace :
          /\ trace[i].kind = "decide_call" =>
                /\ Cardinality(Before(i, "Step")) = Cardinality(Before(i, "exec"))
                /\ Cardinality(Before(i, "exec")) = Cardinality(Before(i, "observe"))
          /\ trace[i].kind = "exec" =>
                /\ Cardinality(Before(i, "Step")) = Cardinality(Before(i, "exec")) + 1
                /\ Cardinality(Before(i, "exec")) = Cardinality(Before(i, "observe"))
    /\ (pc = "deciding" /\ step_count > 0) =>
          LET e == LastOf({i \in DOMAIN trace : trace[i].kind = "exec"}) IN
          /\ SessionOf(e) = Len(started)
          /\ Last(conversation) = ObservationTurn(trace[e].page_state)

\* The second decide call of a session is in flight after a failed action.
C3_Witness ==
    /\ pc = "deciding"
    /\ step_count > 0
    /\ Last(conversation).content.error # <<>>

(***************************************************************************)
(* C4  As claimed: the send of a command made while a session is running   *)
(* completes only after the Ready of that session.                         *)
(***************************************************************************)
SendCompletes(h) == handler[h] = "sending" /\ handler'[h] = "acked"

C4_SendWaitsForReady ==
    [][\A h \in Handlers :
          (SendCompletes(h) /\ sent_during[h] > 0) =>
              (pc = "idle" \/ Len(started) > sent_during[h])]_vars

(***************************************************************************)
(* C4, amended  A command is dequeued only when no session is running:     *)
(* the first one, or right after the Ready of the session before.  A send  *)
(* completes whenever the single slot is free, also while a session runs,  *)
(* and never while a command waits in the slot.                            *)
(***************************************************************************)
C4_DequeueWaitsForReady ==
    [][/\ started' # started =>
            /\ pc = "idle"
            /\ trace = <<>> \/ Last(trace) = Ready
       /\ \A h \in Handlers :
            SendCompletes(h) =>
                /\ Len(cmd_chan) < CMD_CHANNEL_CAPACITY
                /\ cmd_chan' = Append(cmd_chan, h)
       /\ Len(cmd_chan') <= CMD_CHANNEL_CAPACITY]_vars

\* While the first session runs, a second command has been accepted and
\* waits in the slot.
C4_Witness ==
    /\ pc = "executing"
    /\ Len(started) = 1
    /\ Len(accepted) = 2
    /\ Len(cmd_chan) = 1

(***************************************************************************)
(* C5  One session at a time: a session starts only as the first entry of  *)
(* the history or right after the Ready of the session before it, so the   *)
(* entries (events, calls) of two sessions never interleave; the task      *)
(* turns of the conversation are as many as the sessions started; and      *)
(* while main awaits a command nothing of a session is left running.       *)
(***************************************************************************)
TaskTurns == {t \in DOMAIN conversation : \E c \in Handlers : conversation[t] = TaskTurn(c)}

C5_OneSessionAtATime ==
    /\ \A i \in DOMAIN trace :
          /\ trace[i].kind = "recv" => (i = 1 \/ trace[i - 1] = Ready)
          /\ i = 1 => trace[i].kind = "recv"
    /\ Cardinality(Recvs) = Len(started)
    /\ Cardinality(TaskTurns) = Len(started)
    /\ Cardinality({i \in DOMAIN trace : trace[i] = Ready}) =
          IF pc = "idle" THEN Len(started) ELSE Len(started) - 1
    /\ pc = "idle" => (jobs = <<>> /\ join = NoResult /\ command = <<>>)
    /\ pc # "idle" => command = <<Last(started)>>

\* The second session is under way.
C5_Witness ==
    /\ Len(started) = 2
    /\ pc = "executing"

(***************************************************************************)
(* C6  The commands dequeued are, in order, a prefix of the commands       *)
(* whose send completed, and every command whose send completed is         *)
(* eventually dequeued and run.                                            *)
(***************************************************************************)
IsPrefix(a, b) == Len(a) <= Len(b) /\ a = SubSeq(b, 1, Len(a))

C6_FifoNeverDropped ==
    /\ [](IsPrefix(started, accepted))
    /\ \A k \in 1..MaxCommands : (Len(accepted) >= k) ~> (Len(started) >= k)

\* Two sessions ran, in the order in which the sends completed, which is
\* not the order in which the requests arrived.
C6_Witness ==
    /\ started = <<2, 1>>
    /\ accepted = <<2, 1>>
    /\ pc = "idle"

(***************************************************************************)
(* C7  A finished session whose decisions all parsed, whose steps all      *)
(* succeeded and whose last decision is Done(S) published: Thinking and    *)
(* Step k for the k-th step, k = 1..n, then Thinking, TaskComplete(S) and  *)
(* Ready, and nothing else.  A successful Extract puts one Extraction,     *)
(* with its label, in the page state observed after it, and no other       *)
(* successful step puts any.                                               *)
(***************************************************************************)
IsDecided(e) == e.kind = "decided"
EventsOf(s) == SelectSeq(SubSeq(trace, StartIndex(s), EndIndex(s)), IsEvent)
DecisionsOf(s) == SelectSeq(SubSeq(trace, StartIndex(s), EndIndex(s)), IsDecided)

CleanRun(s) ==
    /\ s < Len(started) \/ pc = "idle"
    /\ \A i \in InSession(s) :
          /\ ~IsDecidedError(i)
          /\ trace[i].kind = "exec" => trace[i].failed = ""
    /\ \E i \in InSession(s) : IsDecidedDone(i)

ExpectedEvents(ds) ==
    LET n == Len(ds) - 1 IN
    [j \in 1..(2 * n + 3) |->
        IF j = 2 * n + 3 THEN Ready
        ELSE IF j % 2 = 1 THEN Thinking
        ELSE IF j = 2 * n + 2 THEN TaskComplete(ds[n + 1].result.step.summary)
        ELSE StepEvent(j \div 2, DebugFmt(ds[j \div 2].result.step))]

IsFailedExec(i) == trace[i].kind = "exec" /\ trace[i].failed # ""

\* C8, as claimed: after a step that failed the process does not abort and
\* the worker returns a page state, whatever the page holds.
C8_FailedStepNeverAborts ==
    \A i \in DOMAIN trace :
        IsFailedExec(i) =>
            /\ Returned(i)
            /\ SessionOf(i) = Len(started) => pc # "panicked"

\* What holds of C8: where the closure of the failed step returns, the run
\* goes on as claimed.
C8_FailedStepRecovers ==
    \A i \in DOMAIN trace :
        (IsFailedExec(i) /\ Returned(i)) =>
            LET ps == trace[i].page_state
                used == Cardinality({j \in Before(i, "decided") : IsDecidedStep(j)})
            IN
            /\ trace[i].step \in NonTerminalSteps
            /\ ps.error = <<trace[i].failed \o " failed">>
            /\ ps.url \in {"https://x/page", "unknown"}
            /\ ps.title \in {"Page", "untitled"}
            /\ ps.dom_snapshot \in {"[e0] link", ""}
            /\ i = Len(trace) => (pc = "executing" /\ join = ps)
            /\ i < Len(trace) => trace[i + 1] = StepError(ps.error[1])
            /\ i + 1 = Len(trace) => FALSE
            /\ i + 2 <= Len(trace) => trace[i + 2] = [kind |-> "observe", page_state |-> ps]
            /\ i + 2 = Len(trace) =>
                  /\ pc = "loop"
                  /\ Last(conversation) = ObservationTurn(ps)
                  /\ Last(conversation).content.error # <<>>
            /\ i + 3 <= Len(trace) =>
                  IF used >= MAX_STEPS_PER_TASK
                  THEN trace[i + 3] = TaskError(LimitMessage)
                  ELSE /\ trace[i + 3] = Thinking
                       /\ i + 4 <= Len(trace)
                       /\ trace[i + 4] = [kind |-> "decide_call"]

\* A Click whose element is not found, and the next decide round under way.
C8_Witness ==
    \E i \in DOMAIN trace :
        /\ IsFailedExec(i)
        /\ trace[i].step = Click
        /\ trace[i].failed = "find_element"
        /\ i + 4 = Len(trace)
        /\ pc = "deciding"

(***************************************************************************)
(* C9  A decide_next_step that returns an error ends the session: the      *)
(* next entry is the TaskError with the error text, it is the only         *)
(* TaskError of the session, and after it the session has only Ready: no   *)
(* further decide call, no Step, no execution.                             *)
(***************************************************************************)
C9_DecideFailureEndsSession ==
    \A i \in DOMAIN trace :
        IsDecidedError(i) =>
            LET s == SessionOf(i) IN
            /\ trace[i].result.error \in
                  {"error sending request", "OpenAI API error",
                   "No content in LLM response", "Failed to parse LLM response"}
            /\ i < Len(trace)
            /\ trace[i + 1] = TaskError(trace[i].result.error)
            /\ KindIn(s, "TaskError") = {i + 1}
            /\ \A j \in InSession(s) : j > i + 1 => (j = i + 2 /\ trace[j] = Ready)
            /\ i + 1 = Len(trace) => pc = "finish"
            /\ s = Len(started) => (jobs = <<>> /\ join = NoResult)

\* After one executed step, a reply naming an action outside the closed set
\* ended the session.
C9_Witness ==
    /\ pc = "idle"
    /\ \E i \in DOMAIN trace :
          /\ IsDecidedError(i)
          /\ trace[i].response = Content(<<Object([action |-> "Hover", selector |-> "body"])>>)
          /\ Before(i, "exec") # {}
          /\ i + 2 = Len(trace)

(***************************************************************************)
(* C10  As claimed: when decide_next_step returns for a reply whose        *)
(* parsing fails, the reply has been appended verbatim as one assistant    *)
(* turn and memory.json holds the conversation with that turn.             *)
(***************************************************************************)
DecideReturns == pc = "deciding" /\ pc' # "deciding"
ReturnedDecision == trace'[Len(trace) + 1]

C10_ReplyAppendedAndPersisted ==
    [][(/\ DecideReturns
        /\ ReturnedDecision.response.kind = "content"
        /\ ~ReturnedDecision.result.ok) =>
            /\ conversation' =
                  Append(conversation, AssistantTurn(ReturnedDecision.response.content))
            /\ memory_file' = SavedFile(conversation')]_vars

\* The part of C10 about the history alone: every reply with content, parsed
\* or not, is appended verbatim as one assistant turn, and a response
\* without content appends nothing.
C10_ReplyAppended ==
    [][DecideReturns =>
            conversation' =
                IF ReturnedDecision.response.kind = "content"
                THEN Append(conversation, AssistantTurn(ReturnedDecision.response.content))
                ELSE conversation]_vars

(***************************************************************************)
(* C11  While a Brain exists its conversation starts with a system turn    *)
(* and only grows: every step of start_task, observe and decide_next_step  *)
(* leaves the earlier history as a prefix of the new one, whatever file    *)
(* the process was started on and however many tasks were started.         *)
(***************************************************************************)
StartsWithSystem(conv) == conv # <<>> => conv[1].role = "system"

C11_AppendOnlySystemFirst ==
    [][/\ StartsWithSystem(conversation)
       /\ StartsWithSystem(conversation')
       /\ (conversation # <<>> /\ conversation' # <<>>) =>
             IsPrefix(conversation, conversation')]_vars

\* A second task has been started on top of a history loaded from the file
\* of an earlier run, and the turns of the earlier task are still there.
C11_Witness ==
    /\ Len(conversation) = MaxTurns
    /\ conversation[1] = OldSystemTurn
    /\ conversation[2] = TaskTurn(2)
    /\ conversation[MaxTurns] = TaskTurn(1)

(***************************************************************************)
(* C12  As claimed: after every append (start_task, observe, the reply in  *)
(* decide_next_step) memory.json holds exactly the conversation in         *)
(* memory.                                                                 *)
(***************************************************************************)
Appends == conversation # <<>> /\ Len(conversation') = Len(conversation) + 1

C12_PersistedAfterEveryAppend ==
    [][Appends => memory_file' = SavedFile(conversation')]_vars

(***************************************************************************)
(* C13  As claimed: whatever save_memory does with the conversation,       *)
(* load_memory on the file it leaves gives the same turns in the same      *)
(* order, and saving and loading once more changes neither.                *)
(***************************************************************************)
AllSaveOutcomes == {"written", "create_failed", "write_failed"}

RoundTrip(outcome) ==
    LET saved == SaveMemory(memory_file, conversation, outcome)
        loaded == LoadMemory(saved, <<SystemTurn>>)
    IN /\ loaded = conversation
       /\ SaveMemory(saved, loaded, outcome) = saved
       /\ LoadMemory(SaveMemory(saved, loaded, outcome), <<SystemTurn>>) = loaded

C13_SaveLoadRoundTrip ==
    conversation # <<>> => \A outcome \in AllSaveOutcomes : RoundTrip(outcome)

\* The part of C13 that holds: the round trip through a write that went
\* through.
C13_RoundTripOfCompletedWrite ==
    conversation # <<>> => RoundTrip("written")

(***************************************************************************)
(* C14  At process start the conversation becomes the turn sequence held   *)
(* by memory.json when the file opens, parses as a list of messages, is    *)
(* not empty and begins with a system record; in every other case it is    *)
(* the single system turn of Brain::new.                                   *)
(***************************************************************************)
Starts == conversation = <<>> /\ conversation' # <<>>

HoldsTurns(file) ==
    /\ file.state = "saved"
    /\ file.text.json = "array"
    /\ \A i \in DOMAIN file.text.items :
          LET item == file.text.items[i] IN
          /\ item.json = "object"
          /\ "role" \in DOMAIN item.fields /\ item.fields.role.json = "string"
          /\ "content" \in DOMAIN item.fields /\ item.fields.content.json = "string"

TurnsHeld(file) ==
    [i \in 1..Len(file.text.items) |->
        [role |-> file.text.items[i].fields.role.v,
         content |-> file.text.items[i].fields.content.v]]

Unread(s) == Len(Published) - subs[s].next + 1

Polls(s) == subs[s].state = "open" /\ subs'[s] # subs[s] /\ subs'[s].state = "open"

C16_OrderedAtMostOnce ==
    [][\A s \in DOMAIN subs :
          /\ subs[s].state = "open" =>
                LET got == subs[s].got IN
                /\ \A k \in DOMAIN got :
                      /\ got[k].pos \in subs[s].since..(subs[s].next - 1)
                      /\ got[k].event = Published[got[k].pos]
                      /\ k > 1 => got[k - 1].pos < got[k].pos
                /\ subs[s].next <= Len(Published) + 1
          /\ Polls(s) =>
                IF Unread(s) <= EVENT_CHANNEL_CAPACITY
                THEN /\ subs'[s].got = Append(subs[s].got,
                                              [pos |-> subs[s].next,
                                               event |-> Published[subs[s].next]])
                     /\ subs'[s].next = subs[s].next + 1
                ELSE /\ subs'[s].got = subs[s].got
                     /\ subs'[s].next > subs[s].next
                     /\ Len(Published) - subs'[s].next + 1 = EVENT_CHANNEL_CAPACITY]_vars

\* A subscriber that fell behind: it was given an early event, lost some,
\* and was then given later ones, still in order.
C16_Witness ==
    \E s \in DOMAIN subs :
        /\ subs[s].state = "open"
        /\ Len(subs[s].got) >= 2
        /\ subs[s].got[2].pos > subs[s].got[1].pos + 1
        /\ subs[s].got[2].event = Published[subs[s].got[2].pos]

(***************************************************************************)
(* C17  As claimed: a handler never waits for a task to complete: while a  *)
(* task is running, a handler that has called send can return its "ok",    *)
(* whatever is queued.                                                     *)
(***************************************************************************)
C17_AckWithoutWaiting ==
    \A h \in Handlers :
        (handler[h] = "sending" /\ pc # "idle") => ENABLED SendComplete(h)

(***************************************************************************)
(* C17, amended  A handler returns "ok" when its send has put the command  *)
(* in the slot of the intake channel: that can happen exactly when the     *)
(* slot is empty, whether or not a task is running, and it happens before  *)
(* the task of that command starts; while another command waits in the     *)
(* slot the handler waits, and when a task is running that command is not  *)
(* taken out before the task has finished.                                 *)
(***************************************************************************)
C17_AckWhenSlotFree ==
    /\ \A h \in Handlers :
          /\ handler[h] = "sending" =>
                (ENABLED SendComplete(h) <=> cmd_chan = <<>>)
          /\ handler[h] # "acked" =>
                \A i \in DOMAIN started : started[i] # h
    /\ (cmd_chan # <<>> /\ pc # "idle") => ~ENABLED RecvCommand
    /\ \A i \in DOMAIN cmd_chan : handler[cmd_chan[i]] = "acked"

\* The third request waits in send: the first task is running and the
\* second command, already acknowledged, is in the slot.
C17_Witness ==
    /\ MaxRequests \in DOMAIN handler
    /\ handler[MaxRequests] = "sending"
    /\ cmd_chan # <<>>
    /\ pc = "executing"

(***************************************************************************)
(* C18  As claimed: a finished session in which something failed (a        *)
(* decision, a step in the executor, new_tab at the start of the task or   *)
(* for a NewTab step, the step budget) published at least one Step,        *)
(* StepError or TaskError event.                                           *)
(***************************************************************************)
IsNewTabFailure(i) == trace[i].kind = "new_tab" /\ ~trace[i].ok
IsStartOfTask(i) == i > 1 /\ trace[i - 1].kind = "recv"
IsLimit(i) == trace[i] = TaskError(LimitMessage)
Mirrors(s) == {j \in InSession(s) : trace[j].kind \in {"Step", "StepError", "TaskError"}}
SessionOver(s) == s < Len(started) \/ pc = "idle"

C18_FailuresMirrored ==
    \A s \in Sessions :
        (/\ SessionOver(s)
         /\ \E i \in InSession(s) :
               \/ IsDecidedError(i)
               \/ IsFailedExec(i)
               \/ IsNewTabFailure(i)
               \/ IsLimit(i)) => Mirrors(s) # {}

\* The part of C18 that holds: every failure other than new_tab at the
\* start of the task has such an event after it in its session.
C18_LaterFailuresMirrored ==
    \A s \in Sessions :
        \A i \in InSession(s) :
            (/\ SessionOver(s)
             /\ \/ IsDecidedError(i)
                \/ IsFailedExec(i)
                \/ IsNewTabFailure(i) /\ ~IsStartOfTask(i)
                \/ IsLimit(i)) => \E j \in Mirrors(s) : j >= i

RECURSIVE InteractiveInPreOrder(_, _)
\* The interactive elements the walk reaches, in pre-order: the visible
\* ones outside skipped subtrees and within the depth limit.
InteractiveInPreOrder(kids, depth) ==
    IF depth > SNAPSHOT_MAX_DEPTH \/ kids = <<>> THEN <<>>
    ELSE LET child == Head(kids) IN
         (IF child.tag \in SKIP \/ ~child.visible THEN <<>>
          ELSE (IF child.tag \in InteractiveTags THEN <<child>> ELSE <<>>)
               \o InteractiveInPreOrder(child.kids, depth + 1))
         \o InteractiveInPreOrder(Tail(kids), depth)

\* The emitted lines that are the line of the i-th identifier assigned.
LinesOf(w, i) == {k \in 1..Len(w.lines) : w.lines[k] = w.eids[i].desc}

\* The identifiers are e0, e1, ... in pre-order over the interactive elements.
Sequential(w) ==
    LET reached == InteractiveInPreOrder(page, 0) IN
    /\ Len(w.eids) = Len(reached)
    /\ \A i \in 1..Len(w.eids) :
          /\ w.eids[i].eid = Eid(i - 1)
          /\ w.eids[i].desc = Describe(reached[i], Eid(i - 1))
    /\ \A i, j \in 1..Len(w.eids) : i # j => w.eids[i].eid # w.eids[j].eid

\* C19: within one snapshot the identifiers assigned to interactive
\* elements are pairwise distinct, start at e0 and increase by exactly one
\* in pre-order, and every identifier assigned has exactly one emitted line.
C19_SequentialAndEmittedOnce ==
    walked # <<>> =>
        /\ Sequential(walked[1])
        /\ \A i \in 1..Len(walked[1].eids) :
              Cardinality(LinesOf(walked[1], i)) = 1

\* What holds of C19: the identifiers are distinct, start at e0 and rise by
\* one in pre-order, and no identifier has more than one emitted line.
C19_SequentialAndEmittedAtMostOnce ==
    walked # <<>> =>
        /\ Sequential(walked[1])
        /\ \A i \in 1..Len(walked[1].eids) :
              Cardinality(LinesOf(walked[1], i)) <= 1

\* A snapshot with two identifiers, the second below the first.
C19_Witness ==
    /\ walked # <<>>
    /\ Len(walked[1].eids) = 2
    /\ Len(page) = 1
    /\ \A i \in 1..2 : Cardinality(LinesOf(walked[1], i)) = 1

\* C20: the output of capture_dom_snapshot never exceeds
\* DOM_SNAPSHOT_MAX_CHARS characters; when the untruncated text is longer
\* than the budget the output ends with a truncation marker that carries
\* the exact original length, and when it is not longer the output is the
\* untruncated text without a marker.
C20_WithinBudgetWithMarker ==
    captured # <<>> =>
        /\ captured[1].kind = "ok"
        /\ Len(captured[1].output) <= DOM_SNAPSHOT_MAX_CHARS
        /\ Len(raw) > DOM_SNAPSHOT_MAX_CHARS =>
              captured[1].marker = TruncationMarker(Len(raw))
        /\ Len(raw) <= DOM_SNAPSHOT_MAX_CHARS =>
              captured[1].marker = "" /\ captured[1].output = Display(raw)

\* What holds of C20: where the call returns, the text kept is a prefix of
\* at most DOM_SNAPSHOT_MAX_CHARS bytes; a text over the budget in bytes
\* gets the marker with its length in bytes, any other is returned as it is.
C20_KeptWithinBudget ==
    (captured # <<>> /\ captured[1].kind = "ok") =>
        /\ ByteLen(captured[1].kept) <= DOM_SNAPSHOT_MAX_CHARS
        /\ captured[1].kept = SubSeq(raw, 1, Len(captured[1].kept))
        /\ captured[1].output = Display(captured[1].kept) \o captured[1].marker
        /\ ByteLen(raw) > DOM_SNAPSHOT_MAX_CHARS =>
              captured[1].marker = TruncationMarker(ByteLen(raw))
        /\ ByteLen(raw) <= DOM_SNAPSHOT_MAX_CHARS =>
              captured[1].marker = "" /\ captured[1].kept = raw

(***************************************************************************)
(* C21  A session ends only through a Done decision, a decide_next_step    *)
(* that failed, or the exhaustion of the step budget: every session that   *)
(* is over has exactly one of these in it, with nothing after it but the   *)
(* terminal event and Ready, and a session that is not over has none; a    *)
(* failed action and a failed new_tab are therefore never the last thing   *)
(* of a session; and the arrival of a request or the completion of a send  *)
(* leaves the running session as it is.                                    *)
(***************************************************************************)
Causes(s) ==
    {i \in InSession(s) : IsDecidedDone(i) \/ IsDecidedError(i) \/ IsLimit(i)}

EndsByCause(s, over) ==
    /\ over <=> Causes(s) # {}
    /\ Cardinality(Causes(s)) <= 1
    /\ \A c \in Causes(s) :
          \A j \in InSession(s) :
              /\ j > c => trace[j].kind \in {"TaskComplete", "TaskError", "Ready"}
              /\ (IsFailedExec(j) \/ IsNewTabFailure(j)) => j < c

IntakeStep == handler' # handler

SessionVars == <<pc, command, step_count, conversation, tab, jobs, join, trace, started>>

C21_EndsOnlyByThreeCauses ==
    /\ [](\A s \in Sessions : EndsByCause(s, Ended(s)))
    /\ [][IntakeStep => UNCHANGED SessionVars]_vars

\* What holds of C21: the same of the sessions from which run_task returned;
\* the session cut off by the panic of a closure has none of the three.
C21_ReturnsOnlyByThreeCauses ==
    /\ [](\A s \in Sessions : EndsByCause(s, Finished(s)))
    /\ [][IntakeStep => UNCHANGED SessionVars]_vars

\* A session went past a failed action and a failed new_tab is behind it,
\* and it ended with Done.
C21_Witness ==
    /\ pc = "idle"
    /\ \E s \in Sessions :
          /\ \E j \in InSession(s) : IsFailedExec(j)
          /\ \E c \in Causes(s) : IsDecidedDone(c)

(***************************************************************************)
(* C22  Every session publishes exactly one terminal event, TaskComplete   *)
(* or TaskError, and then exactly one Ready, its last event; and when      *)
(* Ready is published every decide call of the session has returned and    *)
(* every action issued has been executed and observed.                     *)
(***************************************************************************)
Terminals(s) == KindIn(s, "TaskComplete") \cup KindIn(s, "TaskError")

NothingOutstanding(r) ==
    /\ Cardinality(Before(r, "decide_call")) = Cardinality(Before(r, "decided"))
    /\ Cardinality(Before(r, "Step")) = Cardinality(Before(r, "exec"))
    /\ Cardinality(Before(r, "exec")) = Cardinality(Before(r, "observe"))

OneTerminalThenReady(s, over) ==
    /\ Cardinality(Terminals(s)) <= 1
    /\ Cardinality(KindIn(s, "Ready")) <= 1
    /\ \A r \in KindIn(s, "Ready") :
          /\ r = EndIndex(s)
          /\ r - 1 \in Terminals(s)
          /\ NothingOutstanding(r)
    /\ over => Cardinality(Terminals(s)) = 1 /\ Cardinality(KindIn(s, "Ready")) = 1

C22_OneTerminalThenReady ==
    /\ \A s \in Sessions : OneTerminalThenReady(s, SessionOver(s) \/ Crashed(s))
    /\ pc = "idle" => jobs = <<>> /\ join = NoResult

\* What holds of C22: the same of the sessions from which run_task returned;
\* the session cut off by the panic of a closure has no terminal event and
\* no Ready.
C22_ReturnedOneTerminalThenReady ==
    /\ \A s \in Sessions : OneTerminalThenReady(s, SessionOver(s))
    /\ pc = "idle" => jobs = <<>> /\ join = NoResult

(***************************************************************************)
(* C23  Every session terminates: with every decide call answered and      *)
(* every closure run, each session started reaches its Ready, and no       *)
(* session has more than MAX_STEPS_PER_TASK decide calls that succeeded.   *)
(***************************************************************************)
Succeeded(s) == {i \in InSession(s) : IsDecidedStep(i)}

HasReady(k) == Len(started) >= k /\ KindIn(k, "Ready") # {}

C23_EverySessionTerminates ==
    /\ [](\A s \in Sessions : Cardinality(Succeeded(s)) <= MAX_STEPS_PER_TASK)
    /\ \A k \in 1..MaxCommands : (Len(started) >= k) ~> HasReady(k)

\* What holds of C23: each session started reaches its Ready or is cut off
\* by the panic of a closure.
C23_TerminatesOrPanics ==
    /\ [](\A s \in Sessions : Cardinality(Succeeded(s)) <= MAX_STEPS_PER_TASK)
    /\ \A k \in 1..MaxCommands : (Len(started) >= k) ~> (HasReady(k) \/ pc = "panicked")

(***************************************************************************)
(* C24  A new_tab that fails, at the start of a task or for a NewTab       *)
(* action, leaves the current tab handle as it was and the session goes    *)
(* on; one that succeeds makes the tab it created the current handle; and  *)
(* every action is executed, and the page read after it, on the tab of     *)
(* the last new_tab that succeeded before it.                              *)
(***************************************************************************)
OpenedBefore(i) == Cardinality({j \in 1..(i - 1) : trace[j].kind = "new_tab" /\ trace[j].ok})

NewTabCalled == Len(trace') > Len(trace) /\ \E j \in (Len(trace) + 1)..Len(trace') : trace'[j].kind = "new_tab"

NewTabResult == trace'[CHOOSE j \in (Len(trace) + 1)..Len(trace') : trace'[j].kind = "new_tab"].ok

C24_NewTabHandle ==
    /\ [](/\ tab = OpenedBefore(Len(trace) + 1)
          /\ tab = tabs_opened
          /\ \A i \in DOMAIN trace :
                /\ trace[i].kind = "exec" => trace[i].tab = OpenedBefore(i)
                /\ (IsNewTabFailure(i) /\ i < Len(trace)) =>
                      trace[i + 1].kind \in {"Thinking", "Step", "TaskError"})
    /\ [][NewTabCalled =>
            IF NewTabResult
            THEN tab' = tabs_opened + 1 /\ tab' # tab /\ pc' \in {"loop", "executing"}
            ELSE tab' = tab /\ pc' \in {"loop", "executing"}]_vars

\* After a tab was opened for the task, the new_tab of a NewTab action
\* failed, and the action was executed on the tab of the task.
C24_Witness ==
    \E i \in DOMAIN trace :
        /\ IsNewTabFailure(i) /\ ~IsStartOfTask(i)
        /\ \E j \in DOMAIN trace : j > i /\ trace[j].kind = "exec" /\ trace[j].tab = 1
        /\ tab = 1

(***************************************************************************)
(* C25  Screenshot is accepted without error and has no side effect:       *)
(* execute_step_on_tab makes no browser call that can fail for it and      *)
(* returns success with nothing extracted, so the page state the closure   *)
(* returns, and the observation appended for it, have no error and no      *)
(* extraction.                                                             *)
(***************************************************************************)
C25_ScreenshotNoOp ==
    /\ FailingCalls(Screenshot) = {}
    /\ \A i \in DOMAIN trace :
          (trace[i].kind = "exec" /\ trace[i].step = Screenshot) =>
              /\ trace[i].failed = ""
              /\ Returned(i) =>
                    /\ trace[i].page_state.error = <<>>
                    /\ trace[i].page_state.extracted = <<>>
                    /\ i < Len(trace) =>
                          trace[i + 1] = [kind |-> "observe", page_state |-> trace[i].page_state]
                    /\ i + 1 = Len(trace) =>
                          /\ Last(conversation).content.error = <<>>
                          /\ Last(conversation).content.extracted = <<>>

\* A Screenshot was executed and its observation is the last turn.
C25_Witness ==
    /\ pc = "loop"
    /\ Len(trace) >= 2
    /\ trace[Len(trace) - 1].kind = "exec"
    /\ trace[Len(trace) - 1].step = Screenshot
    /\ Last(trace).kind = "observe"
    /\ Last(conversation) = ObservationTurn(Last(trace).page_state)

(***************************************************************************)
(* C26  An Extract whose script is evaluated returns success and exactly   *)
(* one Extraction, with the label of the step; its content is the text of  *)
(* the element cut to its first EXTRACT_MAX_CHARS characters: the whole    *)
(* text when it is no longer than that; and when no element matches, the   *)
(* content is empty and the step is still a success.                       *)
(***************************************************************************)
IsPrefixOf(a, b) == Len(a) <= Len(b) /\ a = SubSeq(b, 1, Len(a))

C26_ExtractOneCappedExtraction ==
    (extraction # <<>> /\ extraction[1].failed = "") =>
        LET ret == extraction[1].returned
            text == IF target.element.found THEN target.element.text ELSE <<>>
        IN /\ ret.result.ok
           /\ Len(ret.extracted) = 1
           /\ ret.extracted[1].label = target.step.label
           /\ IsPrefixOf(ret.extracted[1].content, text)
           /\ Len(ret.extracted[1].content) <= EXTRACT_MAX_CHARS
           /\ Len(text) <= EXTRACT_MAX_CHARS => ret.extracted[1].content = text
           /\ Len(text) > EXTRACT_MAX_CHARS => Len(ret.extracted[1].content) = EXTRACT_MAX_CHARS
           /\ ~target.element.found => ret.extracted[1].content = <<>>

\* A text longer than the cap, with a letter of two bytes in the part
\* kept, was extracted under the label price.
C26_Witness ==
    /\ extraction # <<>>
    /\ extraction[1].failed = ""
    /\ target.element.found
    /\ Len(target.element.text) > EXTRACT_MAX_CHARS
    /\ target.element.text[1] = "u"
    /\ target.step.label = "price"
    /\ Len(extraction[1].returned.extracted[1].content) = EXTRACT_MAX_CHARS

(***************************************************************************)
(* C27  Decoding is strict: a reply without the action tag, with a tag     *)
(* that is not one of the nine variants, or without a field its variant    *)
(* requires, makes decide_next_step return an error; and a Step that is    *)
(* returned has the tag of the reply and, for each field of its variant,   *)
(* the value the reply gave: none is made up.                              *)
(***************************************************************************)
ReplyObject == (CHOOSE k \in DOMAIN reply : reply[k].t = "object")

WellFormed(v) ==
    /\ "action" \in DOMAIN v
    /\ v.action \in StepTags
    /\ RequiredFields(v.action) \subseteq DOMAIN v

C27_StrictDecode ==
    decoded # <<>> =>
        LET v == reply[ReplyObject].v IN
        /\ decoded[1].ok <=> WellFormed(v)
        /\ decoded[1].ok =>
              /\ decoded[1].step.action = v.action
              /\ DOMAIN decoded[1].step = {"action"} \cup RequiredFields(v.action)
              /\ \A f \in DOMAIN decoded[1].step : decoded[1].step[f] = v[f]

\* A fenced Click without its selector was refused.
C27_Witness ==
    /\ decoded # <<>>
    /\ Len(reply) > 1
    /\ reply[ReplyObject].v.action = "Click"
    /\ "selector" \notin DOMAIN reply[ReplyObject].v
    /\ ~decoded[1].ok

(***************************************************************************)
(* C28  The Step events of a session are numbered 1, 2, ... : each has     *)
(* the number of decisions that succeeded in the session so far, which is  *)
(* one more than the Step events before it; step_count is 0 when a         *)
(* session starts, is left alone by a decide call that failed, and is      *)
(* raised by one by every decision that succeeded, also by a Done, for     *)
(* which no Step event is published.                                       *)
(***************************************************************************)
StepEventsAdded ==
    {j \in (Len(trace) + 1)..Len(trace') : trace'[j].kind = "Step"}

C28_StepNumbers ==
    /\ [](\A i \in DOMAIN trace :
            trace[i].kind = "Step" =>
                /\ trace[i].number = Cardinality(Before(i, "Step")) + 1
                /\ trace[i].number =
                      Cardinality({j \in Before(i, "decided") : IsDecidedStep(j)}))
    /\ [](pc \in {"loop", "deciding", "executing", "finish"} =>
            step_count = Cardinality(Succeeded(Len(started))))
    /\ [][started' # started => step_count' = 0]_vars
    /\ [][DecideReturns =>
            IF ~ReturnedDecision.result.ok
            THEN step_count' = step_count /\ StepEventsAdded = {}
            ELSE /\ step_count' = step_count + 1
                 /\ IF ReturnedDecision.result.step.action = "Done"
                    THEN StepEventsAdded = {}
                    ELSE /\ Cardinality(StepEventsAdded) = 1
                         /\ \A j \in StepEventsAdded : trace'[j].number = step_count']_vars

\* The first session published Step 1 and ended with Done; the second
\* session has published its Step 1.
C28_Witness ==
    /\ Len(started) = 2
    /\ \E i \in KindIn(1, "Step") : trace[i].number = 1
    /\ KindIn(1, "TaskComplete") # {}
    /\ \E i \in KindIn(2, "Step") : trace[i].number = 1

(***************************************************************************)
(* C29  While a call of decide_next_step is in flight the last turn of     *)
(* the conversation has role user: the task turn of the session for its    *)
(* first call, whatever the session before ended with, and the             *)
(* observation of the last action for every later call.                    *)
(***************************************************************************)
IsObservationTurn(turn) == turn.role = "user" /\ "url" \in DOMAIN turn.content

C29_DecideAfterUserTurn ==
    pc = "deciding" =>
        /\ Last(conversation).role = "user"
        /\ step_count = 0 => Last(conversation) = TaskTurn(command[1])
        /\ step_count > 0 => IsObservationTurn(Last(conversation))

\* The first decide call of the second session is in flight, after a
\* session that ended at the step limit: the task turn follows the last
\* observation of that session.
C29_Witness ==
    /\ pc = "deciding"
    /\ step_count = 0
    /\ Len(started) = 2
    /\ \E i \in InSession(1) : IsLimit(i)
    /\ IsObservationTurn(conversation[Len(conversation) - 1])

(***************************************************************************)
(* C30  A decide_next_step that fails on the transport, on the HTTP        *)
(* status or on a response without content returns the error and leaves    *)
(* the conversation and memory.json as they were.                          *)
(***************************************************************************)
C30_FailedCallLeavesHistory ==
    [][(DecideReturns /\ ReturnedDecision.response.kind # "content") =>
          /\ ~ReturnedDecision.result.ok
          /\ conversation' = conversation
          /\ memory_file' = memory_file]_vars

\* A call failed on the HTTP status in a session that had observed a page;
\* the history ends with that observation and the file holds the history.
C30_Witness ==
    /\ pc = "finish"
    /\ \E i \in DOMAIN trace :
          /\ IsDecidedError(i)
          /\ trace[i].response = HttpError
          /\ i + 1 = Len(trace)
    /\ IsObservationTurn(Last(conversation))
    /\ memory_file = SavedFile(conversation)

(***************************************************************************)
(* C31  After any sequence of snapshots of a page that changes in          *)
(* between, no two elements carry the same data-eid, and the selector of   *)
(* each identifier of the latest snapshot finds the element that snapshot  *)
(* gave it to.                                                             *)
(***************************************************************************)
C31_IdentifiersStayUnique ==
    walked # <<>> =>
        /\ \A i, j \in DOMAIN page :
              (i # j /\ page[i].eid # "") => page[i].eid # page[j].eid
        /\ \A k \in DOMAIN Last(walked).at :
              FindElement(Last(walked).snapshot.eids[k].eid) = Last(walked).at[k]

\* What holds of C31: every element the latest snapshot labelled carries
\* the identifier that snapshot gave it, and these differ from one another.
C31_LatestLabelsInPlace ==
    walked # <<>> =>
        LET latest == Last(walked) IN
        /\ Len(latest.at) = Len(latest.snapshot.eids)
        /\ \A k \in DOMAIN latest.at :
              /\ page[latest.at[k]].eid = latest.snapshot.eids[k].eid
              /\ latest.snapshot.eids[k].eid = Eid(k - 1)

(***************************************************************************)
(* C32  Extractions do not accumulate: the page state a step returns, and  *)
(* the observation appended for it, hold the one Extraction of that step   *)
(* when it is an Extract that did not fail, and none otherwise, whatever   *)
(* the steps before it extracted.                                          *)
(***************************************************************************)
OwnExtractions(i) ==
    IF trace[i].step.action = "Extract" /\ trace[i].failed = ""
    THEN <<[label |-> trace[i].step.label,
            content |-> Take(IF trace[i].page_state.extracted = <<>> THEN <<>>
                             ELSE Last(trace[i].page_state.extracted).content,
                             EXTRACT_MAX_CHARS)]>>
    ELSE <<>>

C32_ExtractionsDoNotAccumulate ==
    \A i \in DOMAIN trace :
        Returned(i) =>
            /\ trace[i].page_state.extracted = OwnExtractions(i)
            /\ i < Len(trace) =>
                  trace[i + 1 + Len(trace[i].page_state.error)] =
                      [kind |-> "observe", page_state |-> trace[i].page_state]
            /\ i + 1 + Len(trace[i].page_state.error) = Len(trace) =>
                  Last(conversation).content.extracted = OwnExtractions(i)

\* An Extract gave its Extraction, and the observation of the step after
\* it, the last turn, has none.
C32_Witness ==
    /\ pc = "loop"
    /\ Len(trace) >= 2
    /\ Last(trace).kind = "observe"
    /\ Last(conversation).content.extracted = <<>>
    /\ \E i \in InSession(Len(started)) :
          /\ Returned(i)
          /\ Len(trace[i].page_state.extracted) = 1
          /\ i + 1 < Len(trace)
====
